---- MODULE Spec2Model ----
(***************************************************************************)
(* The FPL draft data pipeline of data_fetcher.py: the HTTP JSON client    *)
(* (_get_json_from_url), the cached orchestrator (fetch_fpl_data) with its *)
(* validation, ownership, cumulative-points and segmentation stages, and   *)
(* the process-wide DATA_CACHE.  One fetch_fpl_data invocation is a chain  *)
(* of steps, one per HTTP request it issues; the wall clock may advance    *)
(* between any two steps.                                                  *)
(***************************************************************************)
EXTENDS Integers, Sequences, FiniteSets, TLC

\* ---------------------------------------------------------------- bounds
NumLeagues == 2
NumPlayers == 2
MaxGW == 5
MaxTime == 601
NumTeams == 3
MaxRounds == 6
MaxPoints == 12
NumRows == 3
MaxWindows == 3
MaxSaved == 1

\* ------------------------------------------------------ program constants
CACHE_DURATION_SECONDS == 600

Leagues == 1..NumLeagues
PlayerIds == 1..NumPlayers
Gameweeks == 1..MaxGW
\* Clock readings: the instants around multiples of the cache duration.
Times ==
    {t \in 0..MaxTime :
        \/ t = 0
        \/ \E k \in 1..(MaxTime \div CACHE_DURATION_SECONDS) :
              t - k * CACHE_DURATION_SECONDS \in {-1, 0, 1}}

VARIABLES
    now,                 \* time.time()
    DATA_CACHE,          \* league id -> [timestamp, data]; keys are the cached leagues
    pc,                  \* position of the fetch_fpl_data invocation
    league_id,           \* argument of the running / last invocation
    force_refresh,       \* argument of the running / last invocation
    current_time,        \* local: clock value read at line 50
    bootstrap,           \* local: what _get_json_from_url(BOOTSTRAP_URL) returned
    league_data,         \* local: what the league details request returned
    draft_picks_data,    \* local: what the draft choices request returned
    gameweeks_to_fetch,  \* local: gameweeks the for loop has still to request
    gameweek_stats_list, \* local: the live stat records collected so far
    result,              \* what the invocation returned (or raised)
    reqs,                \* the HTTP requests the invocation issued, in order
    http,                \* the last direct _get_json_from_url call: url, outcome, return
    heap,                \* the DataFrame objects of the returned triple and their data
    est,                 \* the last derivation of the fixture estimator / the rank step
    seen,                \* the failed forced refresh the caller saw last, if it saw one
    widget,              \* a table widget on its own: class, dataframe, sort attributes
    event,               \* the event the table widget on its own handled last
    app,                 \* the FPLApp object: its tables, tree, table widget, records
    windows,             \* the Toplevel windows created so far: frozen views, saved tables
    saved_tables         \* the 'tables' list of saved_tables.json

vars == <<now, DATA_CACHE, pc, league_id, force_refresh, current_time, bootstrap,
          league_data, draft_picks_data, gameweeks_to_fetch, gameweek_stats_list,
          result, reqs, http, heap, est, seen, widget, event,
          app, windows, saved_tables>>

\* ------------------------------------------------------------ JSON values
\* A JSON value as the code can tell it apart: None (no data), a falsy value
\* ({} [] 0 "" false), a truthy number or true, a truthy list or string (which
\* may or may not contain the key the code looks up with `in`), or an object.
NoneValue == [kind |-> "none"]
Unset == [kind |-> "unset"]
FalsyValue == [kind |-> "falsy"]
ScalarValue == [kind |-> "scalar"]
SeqValue(has) == [kind |-> "seq", has |-> has]
NonObjects == {FalsyValue, ScalarValue, SeqValue(TRUE), SeqValue(FALSE)}

\* A value under a key of an object: absent, present but not of the expected
\* container type, or the expected container with its content.
Absent == [t |-> "absent"]
Other == [t |-> "other"]
Some(v) == [t |-> "some", v |-> v]

\* ------------------------------------------------------------------ URLs
BOOTSTRAP_URL == [ep |-> "bootstrap-static", arg |-> 0]
LEAGUE_URL(l) == [ep |-> "league-details", arg |-> l]
DRAFT_CHOICES_URL(l) == [ep |-> "draft-choices", arg |-> l]
LIVE_EVENT_URL(g) == [ep |-> "event-live", arg |-> g]
Urls == {BOOTSTRAP_URL} \cup {LEAGUE_URL(l) : l \in Leagues}
        \cup {DRAFT_CHOICES_URL(l) : l \in Leagues}
        \cup {LIVE_EVENT_URL(g) : g \in Gameweeks}

\* ------------------------------------------------------ HTTP JSON client
\* What one GET can come to: no response at all (connection error, timeout),
\* or a final response with a status code and a body that is or is not JSON.
StatusCodes == {200, 304, 404, 500}
InvalidBody == [json |-> FALSE]
JsonBody(v) == [json |-> TRUE, value |-> v]
HttpOutcomes(values) ==
    {[kind |-> "transport"]}
    \cup {[kind |-> "response", status |-> s, body |-> b] :
            s \in StatusCodes, b \in {InvalidBody} \cup {JsonBody(v) : v \in values}}

Returned(v) == [raised |-> FALSE, value |-> v]
Raised(e) == [raised |-> TRUE, exc |-> e]

\* requests.get: raises a RequestException when there is no response.
requests_get(o) ==
    IF o.kind = "transport" THEN Raised("ConnectionError") ELSE Returned(o)

\* Response.raise_for_status: HTTPError for 4xx and 5xx only.
raise_for_status(response) ==
    IF response.status >= 400 /\ response.status < 600
    THEN Raised("HTTPError") ELSE Returned(response)

\* Response.json: JSONDecodeError when the body is not JSON.
response_json(response) ==
    IF response.body.json THEN Returned(response.body.value) ELSE Raised("JSONDecodeError")

\* The try block of _get_json_from_url, lines 29-33.
TryBlock(o) ==
    LET g == requests_get(o) IN
    IF g.raised THEN g
    ELSE LET s == raise_for_status(g.value) IN
         IF s.raised THEN s ELSE response_json(g.value)

\* Mutant: only the JSON decode error is caught.
CaughtDecodeErrorOnly == {"JSONDecodeError"}

\* The exceptions the two except clauses (lines 34, 37) catch:
\* RequestException with its subclasses, and JSONDecodeError.
RequestExceptions == {"ConnectionError", "HTTPError", "JSONDecodeError"}
Caught == RequestExceptions \cup {"JSONDecodeError"}

get_json_from_url(o) ==
    LET r == TryBlock(o) IN
    IF r.raised /\ r.exc \in Caught THEN Returned(NoneValue) ELSE r

\* What a caller of _get_json_from_url can get back for a request whose JSON
\* bodies, when there is one, range over `values`.
Responses(values) == {get_json_from_url(o) : o \in HttpOutcomes(values)}

\* ------------------------------------------------------- upstream payloads
\* bootstrap-static: an object with elements, teams, element_types, events.
\* Player i plays for team i in position NumPlayers + 1 - i; only team 1 and
\* position 1 have a record, so the list holds players with and without a
\* matching team and with and without a matching position.
TeamName(i) == <<"team", i>>
PositionName(i) == <<"position", i>>
ElementsList ==
    [i \in PlayerIds |->
        [id |-> i, web_name |-> "player" \o ToString(i), total_points |-> 0, team |-> i,
         element_type |-> NumPlayers + 1 - i]]
TeamsList == <<[id |-> 1, name |-> TeamName(1)]>>
ElementTypesList == <<[id |-> 1, singular_name |-> PositionName(1)]>>
EventsList(flagged) == [g \in Gameweeks |-> [id |-> g, is_current |-> g \in flagged]]

BootstrapObject(e, t, p, ev) ==
    [kind |-> "dict", elements |-> e, teams |-> t, element_types |-> p, events |-> ev]
ListShapes(list) == {Absent, Other, Some(list)}
ValidBootstraps(eventsPool) ==
    {BootstrapObject(Some(ElementsList), Some(TeamsList), Some(ElementTypesList), ev) :
        ev \in eventsPool}
\* Every combination of a missing, a non-list and a list value under the
\* three validated keys.
ShapedBootstraps ==
    {BootstrapObject(e, t, p, Absent) :
        e \in ListShapes(ElementsList), t \in ListShapes(TeamsList),
        p \in ListShapes(ElementTypesList)}
\* The payload whose elements is a string instead of a list.
ElementsNotAList ==
    BootstrapObject(Other, Some(TeamsList), Some(ElementTypesList), Absent)

\* league/{id}/details: an object with league_entries.
EntryId(l, i) == 10 * l + i
EntryName(l, i) == <<"entry", l, i>>
LeagueEntries(l) ==
    <<[entry_id |-> EntryId(l, 1), entry_name |-> EntryName(l, 1)],
      [entry_id |-> EntryId(l, 2), entry_name |-> EntryName(l, 2)]>>
LeagueObject(le) == [kind |-> "dict", league_entries |-> le]
ValidLeague(l) == LeagueObject(Some(LeagueEntries(l)))

\* A value under a key of a record of a list: an integer, a numeric string, an
\* unparseable string, a non-empty array, or nothing (the key is missing).
IntV(n) == [t |-> "int", n |-> n]
StrV(n) == [t |-> "str", n |-> n]
BadStr == [t |-> "bad"]
ListV == [t |-> "list"]
\* A value that is no object where an object is expected, and a value that
\* cannot be iterated where a list is expected.
NoObject == [t |-> "noobject"]
NotIterable == [t |-> "notiterable"]
Missing == [t |-> "missing"]

\* draft/{id}/choices: an object with choices, a list of picks.
Pick(p, e) == [element |-> IntV(p), entry |-> IntV(e)]
ChoicesObject(c) == [kind |-> "dict", choices |-> c]
ChoicesWith(pickLists) == {ChoicesObject(Some(picks)) : picks \in pickLists}

\* event/{gw}/live: an object with elements, a map from player id to a record
\* with a stats bag.
LiveObject(e) == [kind |-> "dict", elements |-> e]
LiveWith(liveMaps) == {LiveObject(Some(m)) : m \in liveMaps}

\* ------------------------------------------------- Python value semantics
\* bool(v): None and the falsy JSON values are false.
Truthy(v) == v.kind \notin {"none", "falsy"}

\* `key in v` for a truthy v: a key lookup for an object, a membership test for
\* a list or a string, a TypeError for a number.
KeyIn(key, v) ==
    CASE v.kind = "dict" -> Returned(v[key] # Absent)
      [] v.kind = "seq" -> Returned(v.has)
      [] OTHER -> Raised("TypeError")

\* v.get(key): only an object has the method.
DictGet(v, key) ==
    IF v.kind = "dict" THEN Returned(v[key]) ELSE Raised("AttributeError")

IsList(x) == x.t = "some"

\* isinstance(item, dict) for an item of a list: the items that are no
\* objects are ScalarValue.
IsRecord(item) == "kind" \notin DOMAIN item
\* item.get(key): None when the key is missing.
Get(item, key) == IF key \in DOMAIN item THEN item[key] ELSE Missing
\* bool(v), and whether v can be a dict key.
TruthyField(v) == v.t # "missing" /\ (v.t = "int" => v.n # 0)
Hashable(v) == v.t # "list"

\* ---------------------------------------------- stage 1: critical payloads
\* Lines 60-70.  "ok", "fail" (return None, None, None) or the exception raised.
BootstrapKeys == <<"elements", "teams", "element_types">>
\* Mutant: the list validation of lines 67-70 covers 'elements' only.
BootstrapCheckElementsOnly(b) ==
    IF ~Truthy(b) THEN "fail"
    ELSE LET has == KeyIn("elements", b) IN
         IF has.raised THEN has.exc
         ELSE IF ~has.value THEN "fail"
         ELSE IF DictGet(b, "elements").raised THEN DictGet(b, "elements").exc
         ELSE IF ~IsList(b.elements) THEN "fail"
         ELSE "ok"

BootstrapCheck(b) ==
    IF ~Truthy(b) THEN "fail"
    ELSE LET has == KeyIn("elements", b) IN
         IF has.raised THEN has.exc
         ELSE IF ~has.value THEN "fail"
         ELSE IF DictGet(b, "elements").raised THEN DictGet(b, "elements").exc
         ELSE IF \E i \in 1..Len(BootstrapKeys) : ~IsList(b[BootstrapKeys[i]]) THEN "fail"
         ELSE "ok"

\* Lines 79-81, then line 97 (the first use of league_data as an object).
LeagueCheck(ld) ==
    IF ~Truthy(ld) THEN "fail"
    ELSE LET has == KeyIn("league_entries", ld) IN
         IF has.raised THEN has.exc
         ELSE IF ~has.value THEN "fail"
         ELSE IF DictGet(ld, "league_entries").raised THEN DictGet(ld, "league_entries").exc
         ELSE "ok"

\* ------------------------------------------------------ stage 2: ownership
\* Lines 96-99: entry id -> entry name, a later entry overwriting an earlier.
\* Line 98: the entry is an object with both keys.
EntryUsable(e) == IsRecord(e) /\ "entry_id" \in DOMAIN e /\ "entry_name" \in DOMAIN e

RECURSIVE EntryMap(_, _)
EntryMap(entries, acc) ==
    IF entries = <<>> THEN acc
    ELSE LET e == Head(entries) IN
         EntryMap(Tail(entries),
                  IF EntryUsable(e)
                  THEN [k \in DOMAIN acc \cup {e.entry_id} |->
                           IF k = e.entry_id THEN e.entry_name ELSE acc[k]]
                  ELSE acc)
entry_id_to_name(ld) == EntryMap(ld.league_entries.v, <<>>)

\* Lines 105-112: player id -> owner name; a pick counts when its element and
\* entry are truthy and the entry is a known entry id.
\* Lines 108-112 for one pick: "skip", "use", or the exception raised by
\* `entry_id in entry_id_to_name` / `player_to_team[player_id] = ...` when the
\* value cannot be a dict key.
PickStep(pick, e2n) ==
    IF ~IsRecord(pick) THEN "skip"
    ELSE LET player_id == Get(pick, "element")
             entry_id == Get(pick, "entry")
         IN IF ~TruthyField(player_id) \/ ~TruthyField(entry_id) THEN "skip"
            ELSE IF ~Hashable(entry_id) THEN "TypeError"
            ELSE IF entry_id.t # "int" \/ entry_id.n \notin DOMAIN e2n THEN "skip"
            ELSE IF ~Hashable(player_id) THEN "TypeError"
            ELSE "use"

RECURSIVE PickMap(_, _, _)
PickMap(picks, e2n, acc) ==
    IF picks = <<>> THEN acc
    ELSE LET pick == Head(picks) IN
         PickMap(Tail(picks), e2n,
                 IF PickStep(pick, e2n) = "use" /\ pick.element.t = "int"
                 THEN [k \in DOMAIN acc \cup {pick.element.n} |->
                          IF k = pick.element.n THEN e2n[pick.entry.n] ELSE acc[k]]
                 ELSE acc)
\* The first exception the loop over the picks raises, if any.
RECURSIVE PicksCheck(_, _)
PicksCheck(picks, e2n) ==
    IF picks = <<>> THEN "ok"
    ELSE IF PickStep(Head(picks), e2n) \notin {"skip", "use"} THEN PickStep(Head(picks), e2n)
    ELSE PicksCheck(Tail(picks), e2n)
player_to_team(dp, e2n) ==
    IF Truthy(dp) /\ DictGet(dp, "choices").value.t = "some"
    THEN PickMap(dp.choices.v, e2n, <<>>)
    ELSE <<>>

\* Mutant: .get is called on the choices payload without the truthiness guard.
ChoicesCheckUnguarded(dp) ==
    IF DictGet(dp, "choices").raised THEN DictGet(dp, "choices").exc ELSE "ok"

\* Line 106 raises when the truthy choices payload is no object.
ChoicesCheck(dp) ==
    IF Truthy(dp) /\ DictGet(dp, "choices").raised THEN DictGet(dp, "choices").exc ELSE "ok"

\* Lines 105-112: the exception building player_to_team raises, or "ok".
OwnershipCheck(dp, e2n) ==
    IF ChoicesCheck(dp) # "ok" THEN ChoicesCheck(dp)
    ELSE IF Truthy(dp) /\ dp.choices.t = "some" THEN PicksCheck(dp.choices.v, e2n)
    ELSE "ok"

\* Line 114: the owner column; NaN where the player id is not in the map.
NaN == <<>>
OwnerOf(id, p2t) == IF id \in DOMAIN p2t THEN p2t[id] ELSE NaN

\* ------------------------------------------------ stage 3: recent gameweeks
\* Lines 120-123: the first event flagged is_current, else gameweek 1.
\* An item that is no object, or has no truthy is_current, is passed over.
RECURSIVE FirstCurrent(_)
FirstCurrent(events) ==
    IF events = <<>> THEN <<>>
    ELSE IF IsRecord(Head(events)) /\ "is_current" \in DOMAIN Head(events)
            /\ Head(events).is_current
         THEN <<Head(events)>>
    ELSE FirstCurrent(Tail(events))
current_gw(b) ==
    LET events == IF b.events = Absent THEN <<>> ELSE b.events.v
        current_gw_data == FirstCurrent(events)
    IN IF current_gw_data # <<>> THEN current_gw_data[1].id ELSE 1

\* Lines 120-123 raise when the events value cannot be iterated (TypeError)
\* and when the flagged event has no id (KeyError).
EventsCheck(b) ==
    IF b.events = Absent THEN "ok"
    ELSE IF b.events = NotIterable THEN "TypeError"
    ELSE IF FirstCurrent(b.events.v) # <<>> /\ "id" \notin DOMAIN FirstCurrent(b.events.v)[1]
         THEN "KeyError"
    ELSE "ok"

Max(a, b) == IF a >= b THEN a ELSE b
\* range(lo, hi) as a sequence.
Range(lo, hi) == [i \in 1..Max(0, hi - lo) |-> lo + i - 1]
\* Mutant: the window is not clipped at gameweek 1.
GameweeksToFetchUnclipped(g) == Range(g - 3, g + 1)

\* Line 124.
GameweeksToFetch(g) == Range(Max(1, g - 3), g + 1)

\* Lines 132-137: the stat records one live payload contributes, in the
\* order of its player ids.
RECURSIVE LiveRecords(_, _, _)
LiveRecords(m, ids, gameweek) ==
    IF ids = {} THEN <<>>
    ELSE LET id == CHOOSE i \in ids : \A j \in ids : i <= j IN
         <<[id |-> id, gameweek |-> gameweek, total_points |-> m[id]]>>
         \o LiveRecords(m, ids \ {id}, gameweek)
StatsOf(live, gameweek) ==
    IF Truthy(live) /\ DictGet(live, "elements").value.t = "some"
    THEN LiveRecords(live.elements.v, DOMAIN live.elements.v, gameweek)
    ELSE <<>>

\* Lines 132-134 raise when the truthy live payload is no object (.get at
\* line 132) and when a per-player entry is no object (.get at line 134).
LiveCheck(live) ==
    IF ~Truthy(live) THEN "ok"
    ELSE IF DictGet(live, "elements").raised THEN DictGet(live, "elements").exc
    ELSE IF live.elements.t = "some"
            /\ \E id \in DOMAIN live.elements.v : live.elements.v[id] = NoObject
         THEN "AttributeError"
    ELSE "ok"

\* ------------------------------------------------ cumulative total points
\* Mutant: numeric strings are not parsed.
to_numeric_numbers_only(v) == IF v.t = "int" THEN <<v.n>> ELSE <<>>

\* pd.to_numeric(errors='coerce'): a number, or NaN (the empty sequence).
to_numeric(v) == IF v.t \in {"int", "str"} THEN <<v.n>> ELSE <<>>

\* groupby('id').sum() of the coerced column for one player id: NaN is skipped.
RECURSIVE GroupSum(_, _)
GroupSum(stats, id) ==
    IF stats = <<>> THEN 0
    ELSE LET r == Head(stats)
             x == to_numeric(r.total_points)
         IN (IF r.id = id /\ x # <<>> THEN x[1] ELSE 0) + GroupSum(Tail(stats), id)

\* The columns of a DataFrame built from a list of records.
HasColumn(records, col) == \E i \in 1..Len(records) : col \in DOMAIN records[i]
StatsHaveTotalPoints(stats) == \E i \in 1..Len(stats) : stats[i].total_points # Missing

\* Lines 145-160: the merge suffixes the stats column only when both tables
\* carry a total_points column; without the suffixed column every total is 0.
cumulative_total_points(players, stats, id) ==
    IF HasColumn(players, "total_points") /\ StatsHaveTotalPoints(stats)
    THEN GroupSum(stats, id)
    ELSE 0

\* A row with one more column.
WithColumn(row, col, v) == [k \in DOMAIN row \cup {col} |-> IF k = col THEN v ELSE row[k]]

\* Mutant: an inner join, which drops the rows without a match.
RECURSIVE merge_inner(_, _, _, _, _)
merge_inner(left, right, left_on, column, as) ==
    IF left = <<>> THEN <<>>
    ELSE LET row == Head(left)
             matches == SelectSeq(right, LAMBDA t : t.id = row[left_on])
         IN [j \in 1..Len(matches) |-> WithColumn(row, as, matches[j][column])]
            \o merge_inner(Tail(left), right, left_on, column, as)

\* Lines 86-88 and 90-92: left.merge(right[['id', column]], left_on=left_on,
\* right_on='id', how='left') with the right column renamed and the right id
\* dropped: one row per matching right record, and one row with a null when
\* there is none.
RECURSIVE merge_left(_, _, _, _, _)
merge_left(left, right, left_on, column, as) ==
    IF left = <<>> THEN <<>>
    ELSE LET row == Head(left)
             matches == SelectSeq(right, LAMBDA t : t.id = row[left_on])
         IN (IF matches = <<>> THEN <<WithColumn(row, as, NaN)>>
             ELSE [j \in 1..Len(matches) |-> WithColumn(row, as, matches[j][column])])
            \o merge_left(Tail(left), right, left_on, column, as)

\* Lines 86-92 raise KeyError when a table lacks a column they name: a
\* DataFrame has the columns its records carry, and none for an empty list.
EnrichCheck(b) ==
    IF /\ HasColumn(b.teams.v, "id") /\ HasColumn(b.teams.v, "name")
       /\ HasColumn(b.elements.v, "team") /\ HasColumn(b.elements.v, "element_type")
       /\ HasColumn(b.element_types.v, "id") /\ HasColumn(b.element_types.v, "singular_name")
       /\ HasColumn(b.elements.v, "id")
    THEN "ok" ELSE "KeyError"

\* Lines 72-92: the player table with team_name and position.
enriched(b) ==
    merge_left(merge_left(b.elements.v, b.teams.v, "team", "name", "team_name"),
               b.element_types.v, "element_type", "singular_name", "position")

\* players_df as returned: the enriched rows, in their order, with the owner
\* (line 114) and the cumulative total (lines 159-160).
players_df(players, p2t, stats) ==
    [i \in 1..Len(players) |->
        WithColumn(WithColumn(players[i], "owner", OwnerOf(players[i].id, p2t)),
                   "cumulative_total_points",
                   cumulative_total_points(players, stats, players[i].id))]

\* ------------------------------------------------- stage 4: segmentation
RECURSIVE SelectRows(_, _)
SelectRows(rows, owner) ==
    IF rows = <<>> THEN <<>>
    ELSE (IF Head(rows).owner = owner THEN <<Head(rows)>> ELSE <<>>)
         \o SelectRows(Tail(rows), owner)

\* sort_values('cumulative_total_points', ascending=False): equal keys keep
\* their order.
\* Mutant: the sort is ascending.
RECURSIVE InsertAscending(_, _)
InsertAscending(sorted, row) ==
    IF sorted = <<>> THEN <<row>>
    ELSE IF Head(sorted).cumulative_total_points <= row.cumulative_total_points
         THEN <<Head(sorted)>> \o InsertAscending(Tail(sorted), row)
         ELSE <<row>> \o sorted

RECURSIVE InsertDescending(_, _)
InsertDescending(sorted, row) ==
    IF sorted = <<>> THEN <<row>>
    ELSE IF Head(sorted).cumulative_total_points >= row.cumulative_total_points
         THEN <<Head(sorted)>> \o InsertDescending(Tail(sorted), row)
         ELSE <<row>> \o sorted
RECURSIVE SortDescending(_, _)
SortDescending(rows, acc) ==
    IF rows = <<>> THEN acc
    ELSE SortDescending(Tail(rows), InsertDescending(acc, Head(rows)))

\* Lines 165-168.
Owners(df) == {df[i].owner : i \in 1..Len(df)} \ {NaN}
teams_tables(df) == [team \in Owners(df) |-> SortDescending(SelectRows(df, team), <<>>)]
\* Mutant: the undrafted table is not filtered by a null owner.
undrafted_table_unfiltered(df) == SortDescending(df, <<>>)

\* Line 169.
undrafted_table(df) == SortDescending(SelectRows(df, NaN), <<>>)

\* ------------------------------------------------- the returned objects
\* A DataFrame object is a frame over a data buffer: the buffer it reads and
\* writes, and the rows of the buffer it shows, in its order.  Two frames
\* over one buffer see each other's writes.
Frame(buf, index) == [buf |-> buf, index |-> index]
Contents(bufs, frame) == [i \in 1..Len(frame.index) |-> bufs[frame.buf][frame.index[i]]]
Identity(n) == [i \in 1..n |-> i]
\* The buffer of players_df.
Unified == <<"players_df">>

\* Mutant: a partition is a sorted view of the rows of players_df.
partition_view(df, owner) ==
    LET numbered == [i \in 1..Len(df) |-> WithColumn(df[i], "position_in_df", i)]
        sorted == SortDescending(SelectRows(numbered, owner), <<>>)
    IN Frame(Unified, [k \in 1..Len(sorted) |-> sorted[k].position_in_df])

\* Lines 166 and 169: players_df[mask].copy().sort_values(...).reset_index(
\* drop=True) is a new DataFrame over a buffer of its own (the buffer is named
\* after the owner of the partition).
partition(df, owner) == Frame(owner, Identity(Len(SelectRows(df, owner))))

\* Lines 165-173: the three objects of the triple and the buffers behind them.
Objects(df) ==
    LET frames == [players_df |-> Frame(Unified, Identity(Len(df))),
                   teams_tables |-> [team \in Owners(df) |-> partition(df, team)],
                   undrafted_table |-> partition(df, NaN)]
        used == {frames.players_df.buf, frames.undrafted_table.buf}
                \cup {frames.teams_tables[team].buf : team \in Owners(df)}
    IN [kind |-> "objects",
        frames |-> frames,
        bufs |-> [b \in used |->
                    IF b = Unified THEN df ELSE SortDescending(SelectRows(df, b), <<>>)]]

\* The tables a holder of the triple reads.
Deref(h) ==
    [kind |-> "triple",
     players_df |-> Contents(h.bufs, h.frames.players_df),
     teams_tables |-> [team \in DOMAIN h.frames.teams_tables |->
                         Contents(h.bufs, h.frames.teams_tables[team])],
     undrafted_table |-> Contents(h.bufs, h.frames.undrafted_table)]

NoneTriple == [kind |-> "none"]
Triple(df) ==
    [kind |-> "triple", players_df |-> df, teams_tables |-> teams_tables(df),
     undrafted_table |-> undrafted_table(df)]
Exception(e) == [kind |-> "raise", exc |-> e]

\* --------------------------- fixture estimator and performance rank
\* The pipeline variant with a fixture difficulty estimator and a performance
\* rank (specification sections 4.3 and 4.4).  A score is a fixed-point number
\* in units of 1/Unit, Unit being a multiple of every divisor the derivation
\* uses; a points value or an expectation delta is in tenths of a point.
Unit == 15 * 360360
Neutral == 3 * Unit
Teams == 1..NumTeams

\* Mutant: the form score counts every finished result of a team.
FormWindowAll == MaxRounds + 1

\* The number of most recent results a form score counts.
FormWindow == 5

\* Stage A: the raw form of the teams with a finished fixture (Win=3, Draw=1,
\* Loss=0 over the most recent FormWindow results, the fixtures being in
\* gameweek order), and its min-max normalisation to [1,5]; 3.0 for every
\* team when all raw forms are equal.
form_raw(fixtures) ==
    LET played(t) == SelectSeq(fixtures, LAMBDA f : f.finished /\ t \in {f.team_h, f.team_a})
        points(f, t) ==
            LET own == IF t = f.team_h THEN f.team_h_score ELSE f.team_a_score
                other == IF t = f.team_h THEN f.team_a_score ELSE f.team_h_score
            IN IF own > other THEN 3 ELSE IF own = other THEN 1 ELSE 0
        recent(t) ==
            {i \in 1..Len(played(t)) : i > Len(played(t)) - FormWindow}
    IN [t \in {u \in Teams : played(u) # <<>>} |->
          3 * Cardinality({i \in recent(t) : points(played(t)[i], t) = 3})
          + Cardinality({i \in recent(t) : points(played(t)[i], t) = 1})]
form_scores(fixtures) ==
    LET raw == form_raw(fixtures)
        lo == CHOOSE x \in {raw[t] : t \in DOMAIN raw} : \A t \in DOMAIN raw : x <= raw[t]
        hi == CHOOSE x \in {raw[t] : t \in DOMAIN raw} : \A t \in DOMAIN raw : x >= raw[t]
    IN [t \in DOMAIN raw |->
          IF hi = lo THEN Neutral ELSE Unit + (4 * Unit * (raw[t] - lo)) \div (hi - lo)]

\* Mutant: the weights of the blend are swapped.
blend_swapped(published, form) == (4 * published * Unit + 6 * form) \div 10

\* Stage B: the published difficulty of a fixture and the form score of the
\* opponent, weighted 0.6 / 0.4.
blend(published, form) == (6 * published * Unit + 4 * form) \div 10

\* Stage B: the average blended difficulty of the next three unplayed fixtures
\* of a team from the current gameweek on; the neutral value for an opponent
\* without a form score, and for a team without an upcoming fixture.
average_difficulty(fixtures, gw, team) ==
    LET form == form_scores(fixtures)
        upcoming == SelectSeq(fixtures, LAMBDA f :
                        ~f.finished /\ f.gw >= gw /\ team \in {f.team_h, f.team_a})
        n == IF Len(upcoming) > 3 THEN 3 ELSE Len(upcoming)
        score(f) ==
            LET opponent == IF team = f.team_h THEN f.team_a ELSE f.team_h
                published == IF team = f.team_h THEN f.team_h_difficulty
                             ELSE f.team_a_difficulty
            IN blend(published, IF opponent \in DOMAIN form THEN form[opponent] ELSE Neutral)
    IN IF n = 0 THEN Neutral
       ELSE (score(upcoming[1]) + (IF n >= 2 THEN score(upcoming[2]) ELSE 0)
             + (IF n >= 3 THEN score(upcoming[3]) ELSE 0)) \div n

\* Mutant: the lowest step starts at -2 inclusive.
performance_rank_inclusive(delta) ==
    IF delta >= 80 THEN 10 ELSE IF delta >= 40 THEN 8 ELSE IF delta >= 20 THEN 7
    ELSE IF delta >= 0 THEN 6 ELSE IF delta >= -20 THEN 5 ELSE 1

\* The rank of an expectation delta: >= 8 -> 10, >= 4 -> 8, >= 2 -> 7,
\* >= 0 -> 6, > -2 -> 5, else 1.
performance_rank(delta) ==
    IF delta >= 80 THEN 10 ELSE IF delta >= 40 THEN 8 ELSE IF delta >= 20 THEN 7
    ELSE IF delta >= 0 THEN 6 ELSE IF delta > -20 THEN 5 ELSE 1

\* The fixture lists: MaxRounds rounds of team 1 against team 2, home and away
\* in turn, and a last round of team 1 against the last team; the first n
\* rounds are finished, with any results; or no fixture data at all.
FixtureLists ==
    {<<>>} \cup
    UNION {{[r \in 1..(MaxRounds + 1) |->
               [gw |-> r,
                team_h |-> IF r > MaxRounds \/ r % 2 = 1 THEN 1 ELSE 2,
                team_a |-> IF r > MaxRounds THEN NumTeams ELSE IF r % 2 = 1 THEN 2 ELSE 1,
                team_h_difficulty |-> 2, team_a_difficulty |-> 4,
                finished |-> r <= n,
                team_h_score |-> IF r <= n THEN scores[r][1] ELSE 0,
                team_a_score |-> IF r <= n THEN scores[r][2] ELSE 0]] :
            scores \in [1..n -> {<<1, 0>>, <<0, 0>>, <<0, 1>>}]} : n \in 0..MaxRounds}

\* ------------------------------------------------- table_widget.py: tables
\* A DataFrame as a widget holds it: row labels in row order, column labels
\* in column order, and the cell of every row and column label.  A cell is
\* <<n>> for the value n, or NaN.
DataFrame(index, columns, at) == [index |-> index, columns |-> columns, at |-> at]
Labels(seq) == {seq[i] : i \in 1..Len(seq)}
Without(seq, x) == SelectSeq(seq, LAMBDA y : y # x)

\* df.set_index(col): the cells of col become the row labels.
set_index(df, col) ==
    LET row(lab) == CHOOSE r \in Labels(df.index) : df.at[<<r, col>>] = lab
        cols == Without(df.columns, col)
        idx == [i \in 1..Len(df.index) |-> df.at[<<df.index[i], col>>]]
    IN DataFrame(idx, cols,
                 [rc \in Labels(idx) \X Labels(cols) |-> df.at[<<row(rc[1]), rc[2]>>]])

\* df.transpose().
transpose(df) ==
    DataFrame(df.columns, df.index,
              [rc \in Labels(df.columns) \X Labels(df.index) |-> df.at[<<rc[2], rc[1]>>]])

Orderings(labels) ==
    {p \in [1..Len(labels) -> Labels(labels)] : Labels(p) = Labels(labels)}

\* values.sort_values(ascending=...): the labels in an order of their values,
\* NaN last in either direction; the order among equal values is the sort
\* algorithm's.
InOrder(p, value, ascending) ==
    \A i, j \in 1..Len(p) :
        i < j =>
          /\ value[p[i]] = NaN => value[p[j]] = NaN
          /\ (value[p[i]] # NaN /\ value[p[j]] # NaN) =>
                IF ascending THEN value[p[i]][1] <= value[p[j]][1]
                ELSE value[p[i]][1] >= value[p[j]][1]
sort_values(labels, value, ascending) ==
    {p \in Orderings(labels) : InOrder(p, value, ascending)}

\* BaseTable.__init__ (lines 18-43): the widget keeps a copy of the frame.
BaseTable(class, dataframe) ==
    [class |-> class, dataframe |-> dataframe, sort_column_name |-> NoneValue,
     sort_direction |-> "desc", last_sort_asc |-> Absent]

\* BaseTable.update_data (lines 76-79).
update_data(w, new_dataframe) == [w EXCEPT !.dataframe = new_dataframe]

\* Mutant: the direction is reversed whatever header is clicked.
sort_direction_of_toggling(w, column_name) ==
    IF w.sort_direction = "desc" THEN "asc" ELSE "desc"

\* BaseTable._sort_column, lines 84-88: the direction of the sort to come.
sort_direction_of(w, column_name) ==
    IF w.sort_column_name = Some(column_name)
    THEN (IF w.sort_direction = "desc" THEN "asc" ELSE "desc")
    ELSE "desc"

\* BaseTable._sort_column (lines 81-94): the widgets the sort can leave.
BaseTable_sort_column(w, column_name) ==
    LET dir == sort_direction_of(w, column_name)
        value == [r \in Labels(w.dataframe.index) |-> w.dataframe.at[<<r, column_name>>]]
    IN {[w EXCEPT !.sort_column_name = Some(column_name),
                  !.sort_direction = dir,
                  !.dataframe.index = p] :
          p \in sort_values(w.dataframe.index, value, dir = "asc")}

\* TransposedTable._sort_column (lines 171-189): the widgets the sort can
\* leave; a KeyError (stat_name is no row label) leaves the widget as it is.
TransposedTable_sort_column(w, stat_name) ==
    IF stat_name \notin Labels(w.dataframe.index) THEN {w}
    ELSE LET current_order_is_desc ==
                 IF w.last_sort_asc = Absent THEN FALSE ELSE w.last_sort_asc.v
             value == [c \in Labels(w.dataframe.columns) |-> w.dataframe.at[<<stat_name, c>>]]
         IN {[w EXCEPT !.dataframe.columns = p,
                       !.last_sort_asc = Some(~current_order_is_desc)] :
               p \in sort_values(w.dataframe.columns, value, current_order_is_desc)}

\* The frames of the table widgets: NumRows players named 1..NumRows with
\* total_points NumRows..1 and any form values, some equal, some missing.
ColumnNames == <<"web_name", "form", "total_points">>
PlayerFrames ==
    {DataFrame([i \in 1..NumRows |-> i], ColumnNames,
               [rc \in (1..NumRows) \X Labels(ColumnNames) |->
                  CASE rc[2] = "web_name" -> <<rc[1]>>
                    [] rc[2] = "total_points" -> <<NumRows + 1 - rc[1]>>
                    [] OTHER -> form[rc[1]]]) :
       form \in [1..NumRows -> {<<1>>, <<2>>, NaN}]}
SquadFrames == {transpose(set_index(df, "web_name")) : df \in PlayerFrames}

\* ---------------------------------------------------- main_app.py: FPLApp
\* Lines 38-51: the column settings (the settings file holds the defaults).
default_settings ==
    [undrafted_cols |->
        <<"web_name", "position", "team_name", "news", "form", "cumulative_total_points",
          "total_points", "goals_scored", "assists", "clean_sheets", "bonus", "bps",
          "ict_index", "influence", "creativity", "threat", "now_cost">>,
     team_cols |->
        <<"web_name", "position", "team_name", "news", "form", "cumulative_total_points",
          "total_points", "goals_scored", "assists", "clean_sheets", "bonus", "bps",
          "ict_index", "influence", "creativity", "threat", "now_cost", "first_name",
          "second_name">>]
HeadRows == 100

\* FPLApp.__init__ and setup_ui (lines 22-55, 102-149).  `tables` holds
\* players_df, teams_tables and undrafted_table, which are None together or
\* set together (lines 29-31, 169); the tree is the sequence of its item ids;
\* status_label is the text the label has between two handlers.
FPLApp ==
    [tables |-> NoneTriple, current_team_name |-> NoneValue, open_saved_windows |-> <<>>,
     refresh_btn |-> "disabled", status_label |-> "",
     team_tree |-> <<>>, selection |-> <<>>,
     table_widget |-> NoneValue, window_button |-> FALSE]

\* A table of the pipeline as a DataFrame with all its columns.
FrameOf(tbl, players) ==
    LET names == DOMAIN players[1]
        cols == SelectSeq(<<"id", "web_name", "total_points", "team", "element_type",
                            "team_name", "position", "owner", "cumulative_total_points">>,
                          LAMBDA col : col \in names)
    IN DataFrame([i \in 1..Len(tbl) |-> i], cols,
                 [rc \in (1..Len(tbl)) \X names |-> tbl[rc[1]][rc[2]]])

\* df[ordered_visible_cols].head(n): lines 402-403, 410-411, 253-260.
visible(df, display_cols, n) ==
    LET cols == SelectSeq(display_cols, LAMBDA col : col \in Labels(df.columns))
        idx == SubSeq(df.index, 1, IF Len(df.index) < n THEN Len(df.index) ELSE n)
    IN DataFrame(idx, cols, [rc \in Labels(idx) \X Labels(cols) |-> df.at[rc]])

\* sorted(self.teams_tables.keys()), line 368.
sorted(keys) ==
    CHOOSE p \in [1..Cardinality(keys) -> keys] :
        \A i, j \in 1..Cardinality(keys) :
            i < j => (p[i][2] < p[j][2] \/ (p[i][2] = p[j][2] /\ p[i][3] < p[j][3]))

\* FPLApp._populate_team_list (lines 348-369); deleting the items of the tree
\* empties its selection.
populate_team_list(a) ==
    [a EXCEPT !.team_tree = <<<<"undrafted">>, <<"drafted_teams">>>>
                              \o sorted(DOMAIN a.tables.teams_tables),
              !.selection = <<>>,
              !.table_widget = NoneValue]

\* The view of lines 395-420 for the selected item.
view_of(a, iid) ==
    IF iid = <<"undrafted">>
    THEN BaseTable("SortableTable",
                   visible(FrameOf(a.tables.undrafted_table, a.tables.players_df),
                           default_settings.undrafted_cols, HeadRows))
    ELSE LET df == FrameOf(a.tables.teams_tables[iid], a.tables.players_df)
             squad_df == visible(df, default_settings.team_cols, Len(df.index))
         IN IF "web_name" \notin Labels(squad_df.columns)
            THEN BaseTable("SortableTable", squad_df)
            ELSE BaseTable("TransposedTable", transpose(set_index(squad_df, "web_name")))

\* FPLApp._on_team_select (lines 371-436).  An exception of the try block
\* (the tables are None, the team is no key of teams_tables) is caught at
\* line 432, after the old widget and button were destroyed and the view name
\* was set.
on_team_select(a) ==
    IF a.selection = <<>> \/ a.selection[1] = <<"drafted_teams">> THEN a
    ELSE LET iid == a.selection[1]
             named == [a EXCEPT !.window_button = FALSE,
                                !.current_team_name =
                                    Some(IF iid = <<"undrafted">>
                                         THEN <<"Undrafted Players">> ELSE iid)]
         IN IF a.tables.kind # "triple" THEN named
            ELSE IF iid # <<"undrafted">> /\ iid \notin DOMAIN a.tables.teams_tables THEN named
            ELSE [named EXCEPT !.table_widget = view_of(a, iid), !.window_button = TRUE]

\* FPLApp._refresh_current_view (lines 333-346).
refresh_current_view(a) ==
    IF a.current_team_name = NoneValue \/ a.selection = <<>> THEN a ELSE on_team_select(a)

\* df.to_json(orient='split') and pd.read_json(text, orient='split'):
\* lines 513, 296, 322.
to_json(df) ==
    [columns |-> df.columns, index |-> df.index,
     data |-> [i \in 1..Len(df.index) |->
                 [j \in 1..Len(df.columns) |-> df.at[<<df.index[i], df.columns[j]>>]]]]
read_json(text) ==
    LET row(lab) == CHOOSE i \in 1..Len(text.index) : text.index[i] = lab
        col(lab) == CHOOSE j \in 1..Len(text.columns) : text.columns[j] = lab
    IN DataFrame(text.index, text.columns,
                 [rc \in Labels(text.index) \X Labels(text.columns) |->
                     text.data[row(rc[1])][col(rc[2])]])
EmptyFrame == DataFrame(<<>>, <<>>, <<>>)

\* Lines 226-242: the data source of an open saved window: a frame, None, or
\* the TypeError of `in` on teams_tables None.
data_source(a, record) ==
    IF ~record.live_data THEN [kind |-> "frame", df |-> record.frozen_data]
    ELSE IF record.view_id = <<"undrafted">>
    THEN (IF a.tables.kind = "triple"
          THEN [kind |-> "frame",
                df |-> FrameOf(a.tables.undrafted_table, a.tables.players_df)]
          ELSE NoneValue)
    ELSE IF a.tables.kind # "triple" THEN Exception("TypeError")
    ELSE IF record.view_id \in DOMAIN a.tables.teams_tables
    THEN [kind |-> "frame",
          df |-> FrameOf(a.tables.teams_tables[record.view_id], a.tables.players_df)]
    ELSE NoneValue

\* Lines 244-272: what the window's table widget is given.
updated_widget(w, view_id, df) ==
    LET display_cols == IF view_id = <<"undrafted">> THEN default_settings.undrafted_cols
                        ELSE default_settings.team_cols
    IN IF w.class = "SortableTable" THEN update_data(w, visible(df, display_cols, HeadRows))
       ELSE LET squad_df == visible(df, display_cols, Len(df.index)) IN
            IF "web_name" \notin Labels(squad_df.columns) THEN update_data(w, EmptyFrame)
            ELSE update_data(w, transpose(set_index(squad_df, "web_name")))

\* FPLApp._update_open_saved_windows (lines 217-273) from record k on: the
\* windows it leaves, and whether it raised.
RECURSIVE update_open_saved_windows(_, _, _)
update_open_saved_windows(a, wins, k) ==
    IF k > Len(a.open_saved_windows) THEN [windows |-> wins, raised |-> FALSE]
    ELSE LET record == a.open_saved_windows[k]
             source == data_source(a, record)
         IN IF source.kind = "raise" THEN [windows |-> wins, raised |-> TRUE]
            ELSE IF source.kind = "none" THEN update_open_saved_windows(a, wins, k + 1)
            ELSE update_open_saved_windows(
                   a,
                   [wins EXCEPT ![record.window].table_widget =
                       updated_widget(@, record.view_id, source.df)],
                   k + 1)

\* Lines 183-184: the team list is repopulated on a load, not on a refresh.
populate_on_load_always(a, force) == populate_team_list(a)

populate_on_load(a, force) == IF force THEN a ELSE populate_team_list(a)

\* Lines 171-175: the fetch returned the all-None triple, which line 169 has
\* assigned to the three tables.
load_failed_keeps_button(a) ==
    [a EXCEPT !.tables = NoneTriple, !.status_label = "Failed to load data."]

load_failed(a) ==
    [a EXCEPT !.tables = NoneTriple, !.status_label = "Failed to load data.",
              !.refresh_btn = "disabled"]

\* FPLApp.load_fpl_data from line 169 on (lines 169-199), fetch_fpl_data
\* having returned res or raised: the app and the windows it leaves.
load_fpl_data(a, wins, force, res) ==
    CASE res.kind = "triple" ->
           LET loaded == [a EXCEPT !.tables = res, !.refresh_btn = "normal",
                                   !.status_label = "Data loaded successfully!"]
               listed == populate_on_load(loaded, force)
               u == update_open_saved_windows(listed, wins, 1)
           IN [app |-> IF u.raised THEN listed ELSE refresh_current_view(listed),
               windows |-> u.windows]
      [] res.kind = "none" -> [app |-> load_failed(a), windows |-> wins]
      [] OTHER -> [app |-> [a EXCEPT !.status_label = "An error occurred."],
                   windows |-> wins]

\* FPLApp._window_current_table (lines 438-472): a window with a new table of
\* the class of the main table on a copy of its frame, titled with the view,
\* and a save button.  The windows are numbered as they are created; a
\* closed window keeps its number.
window_current_table(a, wins) ==
    IF a.table_widget = NoneValue THEN wins
    ELSE Append(wins, [kind |-> "frozen", open |-> TRUE, title |-> a.current_team_name.v,
                       table_widget |-> BaseTable(a.table_widget.class,
                                                  a.table_widget.dataframe),
                       save_button |-> "normal"])

\* FPLApp._save_table (lines 486-525) with the arguments the button's command
\* of lines 465-469 passes when it is clicked: self.current_team_name and
\* self.table_widget.dataframe as they are then, and the class captured when
\* the window was created.  The id is the time of the save, the clock having
\* advanced since the save before.
save_table(a, saved, table_class, live_data) ==
    Append(saved, [id |-> Len(saved) + 1, view_id |-> a.current_team_name.v,
                   table_class |-> table_class, live_data |-> live_data,
                   frozen_data |-> IF live_data THEN NoneValue
                                   ELSE Some(to_json(a.table_widget.dataframe))])

\* FPLApp.open_saved_table (lines 275-331) for a table of the file: the app
\* and the windows it leaves.  The window exists from line 289 on; an
\* exception after that (teams_tables is None at line 302, or one of the
\* initial update) is caught at line 329.
open_saved_table(a, wins, saved, table_id) ==
    LET config == saved[CHOOSE k \in 1..Len(saved) : saved[k].id = table_id]
        win == [kind |-> "saved", open |-> TRUE, table_id |-> table_id,
                table_widget |-> NoneValue, protocol |-> FALSE]
        loaded == a.tables.kind = "triple"
        frozen == IF config.frozen_data = NoneValue THEN NoneValue
                  ELSE read_json(config.frozen_data.v)
        df == IF frozen # NoneValue THEN Some(frozen)
              ELSE IF config.view_id = <<"undrafted">>
              THEN Some(IF loaded
                        THEN FrameOf(a.tables.undrafted_table, a.tables.players_df)
                        ELSE EmptyFrame)
              ELSE IF ~loaded THEN NoneValue
              ELSE Some(IF config.view_id \in DOMAIN a.tables.teams_tables
                        THEN FrameOf(a.tables.teams_tables[config.view_id],
                                     a.tables.players_df)
                        ELSE EmptyFrame)
    IN IF df = NoneValue THEN [app |-> a, windows |-> Append(wins, win)]
       ELSE LET live_record == [id |-> table_id, window |-> Len(wins) + 1,
                                view_id |-> config.view_id,
                                live_data |-> config.live_data, frozen_data |-> frozen]
                opened == [a EXCEPT !.open_saved_windows = Append(@, live_record)]
                shown == [win EXCEPT !.table_widget = BaseTable(config.table_class, df.v),
                                     !.protocol = TRUE]
            IN [app |-> opened,
                windows |-> update_open_saved_windows(opened, Append(wins, shown), 1).windows]

\* FPLApp._on_saved_window_close (lines 478-484).
on_saved_window_close(a, table_id) ==
    [a EXCEPT !.open_saved_windows = SelectSeq(@, LAMBDA w : w.id # table_id)]

\* ------------------------------------------------------------ input pools
\* The JSON bodies each endpoint can answer with.  The small pools serve the
\* cache protocol: one well-formed body per endpoint and the malformed
\* critical bodies.  The rich pools serve the data stages.
BootstrapSmall == NonObjects \cup {ElementsNotAList} \cup ValidBootstraps({Absent})
LeagueSmall(l) == {ScalarValue, LeagueObject(Absent), ValidLeague(l)}
ChoicesSmall(l) == ChoicesWith({<<Pick(1, EntryId(l, 1))>>})
LiveSmall == LiveWith({(1 :> IntV(4))})

EventsRich ==
    {Absent} \cup {Some(EventsList(F)) : F \in {G \in SUBSET Gameweeks : Cardinality(G) <= 1}}
             \cup {Some(EventsList({2, MaxGW - 1}))}
BootstrapRich == NonObjects \cup ShapedBootstraps \cup ValidBootstraps(EventsRich)
LeagueRich(l) == NonObjects \cup {LeagueObject(Absent), ValidLeague(l)}
ChoicesRich(l) ==
    {FalsyValue, ChoicesObject(Other)}
    \cup ChoicesWith(
      {<<>>,
       <<Pick(1, EntryId(l, 1)), Pick(NumPlayers, EntryId(l, 2))>>,
       <<Pick(1, EntryId(l, 2)), Pick(NumPlayers, EntryId(l, 2))>>,
       <<Pick(1, EntryId(l, 1)), Pick(1, EntryId(l, 2))>>,
       <<Pick(1, EntryId(l + 1, 1)), Pick(NumPlayers + 1, EntryId(l, 1))>>})
LiveRich ==
    {FalsyValue, LiveObject(Other)}
    \cup LiveWith(
      {(1 :> StrV(3)) @@ (NumPlayers :> BadStr),
       (1 :> IntV(4)) @@ (NumPlayers + 1 :> IntV(4)),
       (1 :> Missing) @@ (NumPlayers :> IntV(2))})

\* The ownership pools: league entries and picks that are no objects, lack a
\* key, name an unknown entry or player, or carry an array where an id is
\* expected.
LeagueOwnership(l) ==
    {LeagueObject(Some(entries)) : entries \in
      {<<>>,
       LeagueEntries(l),
       <<ScalarValue, [entry_id |-> EntryId(l, 1)], [entry_name |-> EntryName(l, 1)],
         [entry_id |-> EntryId(l, 2), entry_name |-> EntryName(l, 2)]>>}}
ChoicesOwnership(l) ==
    ChoicesWith(
      {<<ScalarValue, Pick(1, EntryId(l, 1)), Pick(NumPlayers, EntryId(l, 2))>>,
       <<[element |-> IntV(1)], [entry |-> IntV(EntryId(l, 2))],
         Pick(NumPlayers, EntryId(l, 2))>>,
       <<Pick(1, EntryId(l + 1, 1)), Pick(0, EntryId(l, 2)), Pick(NumPlayers, 0)>>,
       <<Pick(NumPlayers, EntryId(l, 2)), [element |-> IntV(1), entry |-> ListV]>>,
       <<[element |-> ListV, entry |-> IntV(EntryId(l, 2))]>>})

\* The malformed-content pools: critical payloads that validate around
\* optional data that is empty, missing or of the wrong shape.
EventsMalformed ==
    {Absent, NotIterable,
     Some(<<ScalarValue, [id |-> 1], [id |-> 2, is_current |-> TRUE]>>),
     Some(<<[is_current |-> TRUE]>>)}
BootstrapMalformed ==
    ValidBootstraps(EventsMalformed)
    \cup {BootstrapObject(Some(e), Some(t), Some(p), Absent) :
            e \in {<<>>, ElementsList}, t \in {<<>>, TeamsList},
            p \in {<<>>, ElementTypesList}}
ChoicesMalformed(l) ==
    NonObjects \cup {ChoicesObject(Absent), ChoicesObject(Other)}
    \cup ChoicesWith({<<>>, <<ScalarValue, Pick(1, EntryId(l, 1))>>})
LiveMalformed ==
    NonObjects \cup {LiveObject(Absent), LiveObject(Other)}
    \cup LiveWith({(1 :> IntV(4)), (1 :> IntV(4)) @@ (NumPlayers :> NoObject)})

\* ------------------------------------------------------------------ state
Init ==
    /\ now = 0
    /\ DATA_CACHE = <<>>
    /\ pc = "idle"
    /\ league_id = 0
    /\ force_refresh = FALSE
    /\ current_time = 0
    /\ bootstrap = Unset
    /\ league_data = Unset
    /\ draft_picks_data = Unset
    /\ gameweeks_to_fetch = <<>>
    /\ gameweek_stats_list = <<>>
    /\ result = Unset
    /\ reqs = <<>>
    /\ http = Unset
    /\ heap = Unset
    /\ est = Unset
    /\ seen = Unset
    /\ widget = Unset
    /\ event = Unset
    /\ app = FPLApp
    /\ windows = <<>>
    /\ saved_tables = <<>>

locals == <<league_id, force_refresh, current_time>>
widgets == <<widget, event>>
gui == <<app, windows, saved_tables>>
callers == <<seen, widgets, gui>>
aside == <<http, est, callers>>
payloads == <<bootstrap, league_data, draft_picks_data>>
loop == <<gameweeks_to_fetch, gameweek_stats_list>>

\* time.time() advances.
Tick ==
    /\ \E t \in Times : t > now /\ now' = t
    /\ UNCHANGED <<DATA_CACHE, pc, locals, payloads, loop, result, reqs, aside, heap>>

\* Mutants of the cache-hit condition: an inclusive window; no expiry at all.
CacheHitInclusive(l, force, t, cache) ==
    /\ ~force
    /\ l \in DOMAIN cache
    /\ t - cache[l].timestamp <= CACHE_DURATION_SECONDS
CacheHitNoExpiry(l, force, t, cache) ==
    /\ ~force
    /\ l \in DOMAIN cache

\* Line 52: the cache-hit condition.
CacheHit(l, force, t, cache) ==
    /\ ~force
    /\ l \in DOMAIN cache
    /\ t - cache[l].timestamp < CACHE_DURATION_SECONDS

\* Mutants of the cache store: an existing entry is not replaced; the cache
\* keeps the latest league only.
StoreCacheKeepExisting(cache, l, t, res) ==
    [k \in DOMAIN cache \cup {l} |->
        IF k \in DOMAIN cache THEN cache[k] ELSE [timestamp |-> t, data |-> res]]
StoreCacheOneSlot(cache, l, t, res) == [k \in {l} |-> [timestamp |-> t, data |-> res]]

\* Line 174: DATA_CACHE[league_id] = {'timestamp': current_time, 'data': result}.
StoreCache(cache, l, t, res) ==
    [k \in DOMAIN cache \cup {l} |->
        IF k = l THEN [timestamp |-> t, data |-> res] ELSE cache[k]]

Logged(url, r) == Append(reqs, [url |-> url, ok |-> ~r.raised /\ r.value # NoneValue])

\* Mutant: a failed invocation invalidates the league's cache entry.
ReturnNoneDropEntry ==
    /\ result' = NoneTriple
    /\ heap' = Unset
    /\ pc' = "returned"
    /\ DATA_CACHE' = [k \in DOMAIN DATA_CACHE \ {league_id} |-> DATA_CACHE[k]]

\* Mutant: a failed invocation ages the league's cache entry out.
ReturnNoneExpireEntry ==
    /\ result' = NoneTriple
    /\ heap' = Unset
    /\ pc' = "returned"
    /\ DATA_CACHE' = [k \in DOMAIN DATA_CACHE |->
                        IF k = league_id
                        THEN [DATA_CACHE[k] EXCEPT !.timestamp = @ - CACHE_DURATION_SECONDS]
                        ELSE DATA_CACHE[k]]

\* `return None, None, None` (lines 62, 70, 81).
ReturnNone ==
    /\ result' = NoneTriple
    /\ heap' = Unset
    /\ pc' = "returned"
    /\ UNCHANGED DATA_CACHE

\* An exception leaves fetch_fpl_data.
Raise(e) ==
    /\ result' = Exception(e)
    /\ heap' = Unset
    /\ pc' = "returned"
    /\ UNCHANGED DATA_CACHE

\* Mutant: the entry is stamped with the time of completion.
FinishStampedAtCompletion(dp, stats) ==
    LET p2t == player_to_team(dp, entry_id_to_name(league_data))
        df == players_df(enriched(bootstrap), p2t, stats)
        res == Triple(df)
    IN /\ result' = res
       /\ heap' = Objects(df)
       /\ DATA_CACHE' = StoreCache(DATA_CACHE, league_id, now, res)
       /\ pc' = "returned"

\* Lines 139-177: cumulative totals, segmentation, cache store, return.
Finish(dp, stats) ==
    LET p2t == player_to_team(dp, entry_id_to_name(league_data))
        df == players_df(enriched(bootstrap), p2t, stats)
        res == Triple(df)
    IN /\ result' = res
       /\ heap' = Objects(df)
       /\ DATA_CACHE' = StoreCache(DATA_CACHE, league_id, current_time, res)
       /\ pc' = "returned"

\* fetch_fpl_data(l, force) is called: lines 50-55.
Call(l, force) ==
    /\ pc = "idle"
    /\ league_id' = l
    /\ force_refresh' = force
    /\ current_time' = now
    /\ reqs' = <<>>
    /\ IF CacheHit(l, force, now, DATA_CACHE)
       THEN /\ result' = DATA_CACHE[l].data
            /\ heap' = Objects(DATA_CACHE[l].data.players_df)
            /\ pc' = "returned"
       ELSE /\ result' = Unset
            /\ heap' = Unset
            /\ pc' = "bootstrap"
    /\ UNCHANGED <<now, DATA_CACHE, payloads, loop, aside>>

\* Lines 59-75: the bootstrap request and its validation.
RespBootstrap(r) ==
    /\ pc = "bootstrap"
    /\ reqs' = Logged(BOOTSTRAP_URL, r)
    /\ IF r.raised
       THEN Raise(r.exc) /\ UNCHANGED bootstrap
       ELSE /\ bootstrap' = r.value
            /\ LET check == BootstrapCheck(r.value) IN
               CASE check = "ok" -> pc' = "league" /\ UNCHANGED <<result, DATA_CACHE, heap>>
                 [] check = "fail" -> ReturnNone
                 [] OTHER -> Raise(check)
    /\ UNCHANGED <<now, locals, league_data, draft_picks_data, loop, aside>>

\* Lines 77-99: the league request, its validation, the team and position
\* merges, the entry map.
RespLeague(r) ==
    /\ pc = "league"
    /\ reqs' = Logged(LEAGUE_URL(league_id), r)
    /\ IF r.raised
       THEN Raise(r.exc) /\ UNCHANGED league_data
       ELSE /\ league_data' = r.value
            /\ LET check == LeagueCheck(r.value)
                   enrich == EnrichCheck(bootstrap)
               IN CASE check = "fail" -> ReturnNone
                    [] check = "TypeError" -> Raise(check)
                    [] check \notin {"fail", "TypeError"} /\ enrich # "ok" -> Raise(enrich)
                    [] check = "ok" /\ enrich = "ok" ->
                          pc' = "choices" /\ UNCHANGED <<result, DATA_CACHE, heap>>
                    [] OTHER -> Raise(check)
    /\ UNCHANGED <<now, locals, bootstrap, draft_picks_data, loop, aside>>

\* Lines 101-124: the draft choices request, the owner column, the gameweeks
\* to fetch; with no gameweek to fetch the invocation completes here.
RespChoices(r) ==
    /\ pc = "choices"
    /\ reqs' = Logged(DRAFT_CHOICES_URL(league_id), r)
    /\ IF r.raised
       THEN Raise(r.exc) /\ UNCHANGED <<draft_picks_data, loop>>
       ELSE /\ draft_picks_data' = r.value
            /\ IF OwnershipCheck(r.value, entry_id_to_name(league_data)) # "ok"
               THEN Raise(OwnershipCheck(r.value, entry_id_to_name(league_data)))
                    /\ UNCHANGED loop
               ELSE IF EventsCheck(bootstrap) # "ok"
               THEN Raise(EventsCheck(bootstrap)) /\ UNCHANGED loop
               ELSE LET gws == GameweeksToFetch(current_gw(bootstrap)) IN
                    /\ gameweeks_to_fetch' = gws
                    /\ gameweek_stats_list' = <<>>
                    /\ IF gws = <<>>
                       THEN Finish(r.value, <<>>)
                       ELSE pc' = "live" /\ UNCHANGED <<result, DATA_CACHE, heap>>
    /\ UNCHANGED <<now, locals, bootstrap, league_data, aside>>

\* Mutant: a failed live request is issued again.
LoopAdvanceRetry(gws, r) == IF r.value = NoneValue THEN gws ELSE Tail(gws)

\* Line 128: the for loop moves on to the next gameweek whatever the request
\* came to.
LoopAdvance(gws, r) == Tail(gws)

\* Lines 128-137: one iteration of the live loop; after the last one,
\* lines 139-177.
RespLive(r) ==
    /\ pc = "live"
    /\ reqs' = Logged(LIVE_EVENT_URL(Head(gameweeks_to_fetch)), r)
    /\ IF r.raised
       THEN Raise(r.exc) /\ UNCHANGED loop
       ELSE IF LiveCheck(r.value) # "ok"
       THEN Raise(LiveCheck(r.value)) /\ UNCHANGED loop
       ELSE LET stats == gameweek_stats_list \o StatsOf(r.value, Head(gameweeks_to_fetch)) IN
            /\ gameweek_stats_list' = stats
            /\ gameweeks_to_fetch' = LoopAdvance(gameweeks_to_fetch, r)
            /\ IF LoopAdvance(gameweeks_to_fetch, r) = <<>>
               THEN Finish(draft_picks_data, stats)
               ELSE pc' = "live" /\ UNCHANGED <<result, DATA_CACHE, heap>>
    /\ UNCHANGED <<now, locals, payloads, aside>>

\* The invocation's frame is gone.
ReturnFrame ==
    /\ pc = "returned"
    /\ pc' = "idle"
    /\ league_id' = 0
    /\ force_refresh' = FALSE
    /\ current_time' = 0
    /\ bootstrap' = Unset
    /\ league_data' = Unset
    /\ draft_picks_data' = Unset
    /\ gameweeks_to_fetch' = <<>>
    /\ gameweek_stats_list' = <<>>
    /\ result' = Unset
    /\ heap' = Unset
    /\ reqs' = <<>>
    /\ UNCHANGED <<now, DATA_CACHE>>

\* The caller takes the result.
Return == ReturnFrame /\ UNCHANGED aside

\* A caller that remembers a failed forced refresh takes the result: it keeps
\* the league of the refresh and the cache entry the league had when the
\* refresh came back.
Handover ==
    /\ ReturnFrame
    /\ seen' = IF force_refresh /\ result.kind # "triple"
               THEN [league_id |-> league_id,
                     entry |-> IF league_id \in DOMAIN DATA_CACHE
                               THEN DATA_CACHE[league_id] ELSE Unset]
               ELSE Unset
    /\ UNCHANGED <<http, est, widgets, gui>>

\* The holder of the returned triple writes a cell of one partition (owner is
\* a team name, or NaN for the undrafted table): row i of the table gets
\* cumulative_total_points -1.  The cache entry holds the same objects.
Mutate(owner, i) ==
    /\ pc = "returned"
    /\ heap # Unset
    /\ owner = NaN \/ owner \in DOMAIN heap.frames.teams_tables
    /\ LET frame == IF owner = NaN THEN heap.frames.undrafted_table
                    ELSE heap.frames.teams_tables[owner]
       IN /\ i \in 1..Len(frame.index)
          /\ heap.bufs[frame.buf][frame.index[i]].cumulative_total_points # -1
          /\ heap' = [heap EXCEPT
                        !.bufs[frame.buf][frame.index[i]].cumulative_total_points = -1]
    /\ result' = Deref(heap')
    /\ DATA_CACHE' = [DATA_CACHE EXCEPT ![league_id].data = Deref(heap')]
    /\ UNCHANGED <<now, pc, locals, payloads, loop, reqs, aside>>

\* The estimator runs, once per fetch, on the fixtures of a bootstrap payload
\* whose current gameweek is the first unfinished round.
Estimate(fixtures) ==
    LET gw == Cardinality({i \in 1..Len(fixtures) : fixtures[i].finished}) + 1 IN
    /\ pc = "idle"
    /\ est = Unset
    /\ est' = [kind |-> "estimate", fixtures |-> fixtures, current_gw |-> gw,
               raw |-> form_raw(fixtures),
               form |-> form_scores(fixtures),
               difficulty |-> [t \in Teams |-> average_difficulty(fixtures, gw, t)]]
    /\ UNCHANGED <<now, DATA_CACHE, pc, locals, payloads, loop, result, reqs, http, heap, callers>>

\* The enrichment of one player row: the expectation delta and its rank.
Rank(points, expected) ==
    /\ pc = "idle"
    /\ est = Unset
    /\ est' = [kind |-> "rank", points |-> points, expected |-> expected,
               delta |-> points - expected,
               rank |-> performance_rank(points - expected)]
    /\ UNCHANGED <<now, DATA_CACHE, pc, locals, payloads, loop, result, reqs, http, heap, callers>>

\* 'Load League' (forced: 'Refresh Data', which can be clicked when enabled)
\* with a number in the league id entry: lines 160-169, into fetch_fpl_data.
LoadClick(l, force) ==
    /\ force => app.refresh_btn = "normal"
    /\ Call(l, force)

\* The same with a text that is no number: int() raises, lines 188-190.
LoadRejected(force) ==
    /\ pc = "idle"
    /\ force => app.refresh_btn = "normal"
    /\ app' = [app EXCEPT !.status_label = "Invalid League ID."]
    /\ UNCHANGED <<now, DATA_CACHE, pc, locals, payloads, loop, result, reqs, http, heap, est,
                   seen, widgets, windows, saved_tables>>

\* fetch_fpl_data came back to load_fpl_data: lines 169-199.
LoadDone ==
    /\ ReturnFrame
    /\ LET done == load_fpl_data(app, windows, force_refresh, result)
       IN app' = done.app /\ windows' = done.windows
    /\ UNCHANGED <<http, est, seen, widgets, saved_tables>>

\* The user selects an item of the team tree: <<TreeviewSelect>>, line 142.
Select(iid) ==
    /\ pc = "idle"
    /\ iid \in Labels(app.team_tree)
    /\ app' = on_team_select([app EXCEPT !.selection = <<iid>>])
    /\ UNCHANGED <<now, DATA_CACHE, pc, locals, payloads, loop, result, reqs, http, heap, est,
                   seen, widgets, windows, saved_tables>>

\* 'Window Current Table' is clicked: line 425.
WindowCurrentTable ==
    /\ pc = "idle"
    /\ app.window_button
    /\ Len(windows) < MaxWindows
    /\ windows' = window_current_table(app, windows)
    /\ UNCHANGED <<now, DATA_CACHE, pc, locals, payloads, loop, result, reqs, http, heap, est,
                   seen, widgets, app, saved_tables>>

\* 'Save this Table...' is clicked in frozen window h and the dialog is
\* confirmed with the live_data choice.  Without a main table the command
\* raises before _save_table is entered.
SaveClick(h, live_data) ==
    /\ pc = "idle"
    /\ h \in 1..Len(windows)
    /\ windows[h].kind = "frozen"
    /\ windows[h].save_button = "normal"
    /\ Len(saved_tables) < MaxSaved
    /\ IF app.table_widget = NoneValue THEN UNCHANGED <<windows, saved_tables>>
       ELSE /\ saved_tables' = save_table(app, saved_tables,
                                          windows[h].table_widget.class, live_data)
            /\ windows' = [windows EXCEPT ![h].save_button = "disabled"]
    /\ UNCHANGED <<now, DATA_CACHE, pc, locals, payloads, loop, result, reqs, http, heap, est,
                   seen, widgets, app>>

\* A table of the file is opened from the saved tables browser, which can be
\* opened again for the same table: saved_tables_browser.py lines 110-125.
OpenSaved(table_id) ==
    /\ pc = "idle"
    /\ table_id \in 1..Len(saved_tables)
    /\ Len(windows) < MaxWindows
    /\ LET done == open_saved_table(app, windows, saved_tables, table_id)
       IN app' = done.app /\ windows' = done.windows
    /\ UNCHANGED <<now, DATA_CACHE, pc, locals, payloads, loop, result, reqs, http, heap, est,
                   seen, widgets, saved_tables>>

\* The user closes saved-table window h: the protocol of line 326 when it
\* was set, the window's own destruction otherwise.
CloseSaved(h) ==
    /\ pc = "idle"
    /\ h \in 1..Len(windows)
    /\ windows[h].kind = "saved"
    /\ windows[h].open
    /\ app' = IF windows[h].protocol THEN on_saved_window_close(app, windows[h].table_id)
              ELSE app
    /\ windows' = [windows EXCEPT ![h].open = FALSE]
    /\ UNCHANGED <<now, DATA_CACHE, pc, locals, payloads, loop, result, reqs, http, heap, est,
                   seen, widgets, saved_tables>>

\* A table widget of the class is created on a frame.
NewTable(class, df) ==
    /\ pc = "idle"
    /\ widget = Unset
    /\ widget' = BaseTable(class, df)
    /\ event' = [kind |-> "new", arg |-> class]
    /\ UNCHANGED <<now, DATA_CACHE, pc, locals, payloads, loop, result, reqs, http, heap, est,
                   seen, gui>>

\* The owner of the widget gives it a new frame.
UpdateData(df) ==
    /\ pc = "idle"
    /\ widget # Unset
    /\ event.kind # "update"
    /\ df \in IF widget.class = "TransposedTable" THEN SquadFrames ELSE PlayerFrames
    /\ widget' = update_data(widget, df)
    /\ event' = [kind |-> "update", arg |-> widget.class]
    /\ UNCHANGED <<now, DATA_CACHE, pc, locals, payloads, loop, result, reqs, http, heap, est,
                   seen, gui>>

\* A click on the header of column c of a SortableTable (line 132).
HeaderClick(c) ==
    /\ pc = "idle"
    /\ widget # Unset
    /\ widget.class = "SortableTable"
    /\ c \in Labels(widget.dataframe.columns)
    /\ widget' \in BaseTable_sort_column(widget, c)
    /\ event' = [kind |-> "header", arg |-> c]
    /\ UNCHANGED <<now, DATA_CACHE, pc, locals, payloads, loop, result, reqs, http, heap, est,
                   seen, gui>>

\* A click on the statistic name s of a TransposedTable (lines 333-336), or a
\* sort request for a name that is no row.
StatClick(s) ==
    /\ pc = "idle"
    /\ widget # Unset
    /\ widget.class = "TransposedTable"
    /\ widget' \in TransposedTable_sort_column(widget, s)
    /\ event' = [kind |-> "stat", arg |-> s]
    /\ UNCHANGED <<now, DATA_CACHE, pc, locals, payloads, loop, result, reqs, http, heap, est,
                   seen, gui>>

\* A direct call of _get_json_from_url(url) whose request comes to outcome o.
GetJsonCall(url, o) ==
    /\ pc = "idle"
    /\ http' = [url |-> url, outcome |-> o, ret |-> get_json_from_url(o)]
    /\ UNCHANGED <<now, DATA_CACHE, pc, locals, payloads, loop, result, reqs, heap, est, callers>>

\* ---------------------------------------------------------- specifications
\* The cache protocol: any sequence of calls for any league, the clock
\* advancing at any point, over the small data pool.
Next ==
    \/ Tick
    \/ \E l \in Leagues, force \in BOOLEAN : Call(l, force)
    \/ \E r \in Responses(BootstrapSmall) : RespBootstrap(r)
    \/ \E r \in Responses(LeagueSmall(league_id)) : RespLeague(r)
    \/ \E r \in Responses(ChoicesSmall(league_id)) : RespChoices(r)
    \/ \E r \in Responses(LiveSmall) : RespLive(r)
    \/ Return

Spec == Init /\ [][Next]_vars

\* The data stages: the fetches of a process whose cache is still empty,
\* over the rich data pool.
NextPipeline ==
    \/ \E l \in Leagues, force \in BOOLEAN : DOMAIN DATA_CACHE = {} /\ Call(l, force)
    \/ \E r \in Responses(BootstrapRich) : RespBootstrap(r)
    \/ \E r \in Responses(LeagueRich(league_id)) : RespLeague(r)
    \/ \E r \in Responses(ChoicesRich(league_id)) : RespChoices(r)
    \/ \E r \in Responses(LiveRich) : RespLive(r)
    \/ Return

SpecPipeline == Init /\ [][NextPipeline]_vars

\* Ownership resolution: the fetches of a process whose cache is still empty,
\* over well-formed bootstrap and live payloads and the ownership pools.
NextOwnership ==
    \/ \E l \in Leagues, force \in BOOLEAN : DOMAIN DATA_CACHE = {} /\ Call(l, force)
    \/ \E r \in Responses(ValidBootstraps({Absent})) : RespBootstrap(r)
    \/ \E r \in Responses(LeagueOwnership(league_id)) : RespLeague(r)
    \/ \E r \in Responses(ChoicesOwnership(league_id)) : RespChoices(r)
    \/ \E r \in Responses(LiveSmall) : RespLive(r)
    \/ Return

SpecOwnership == Init /\ [][NextOwnership]_vars

\* The returned objects: one fetch of a process whose cache is still empty,
\* whose caller then writes into the partitions it got.
NextCopies ==
    \/ \E l \in Leagues, force \in BOOLEAN : DOMAIN DATA_CACHE = {} /\ Call(l, force)
    \/ \E r \in Responses(ValidBootstraps({Absent})) : RespBootstrap(r)
    \/ \E r \in Responses({ValidLeague(league_id)}) : RespLeague(r)
    \/ \E r \in Responses(ChoicesRich(league_id)) : RespChoices(r)
    \/ \E r \in Responses(LiveRich) : RespLive(r)
    \/ \E owner \in {NaN} \cup {EntryName(league_id, e) : e \in 1..2}, i \in PlayerIds :
          Mutate(owner, i)
    \/ Return

SpecCopies == Init /\ [][NextCopies]_vars

\* Malformed optional data: the fetches of a process whose cache is still
\* empty, over critical payloads that validate and the malformed-content
\* pools.
NextMalformed ==
    \/ \E l \in Leagues, force \in BOOLEAN : DOMAIN DATA_CACHE = {} /\ Call(l, force)
    \/ \E r \in Responses(BootstrapMalformed) : RespBootstrap(r)
    \/ \E r \in Responses({ValidLeague(league_id)}) : RespLeague(r)
    \/ \E r \in Responses(ChoicesMalformed(league_id)) : RespChoices(r)
    \/ \E r \in Responses(LiveMalformed) : RespLive(r)
    \/ Return

SpecMalformed == Init /\ [][NextMalformed]_vars

\* The cache as a keyed store: any sequence of calls, forced or not, for any
\* league at one instant of the clock, over the small data pool.
NextKeyed ==
    \/ \E l \in Leagues, force \in BOOLEAN : Call(l, force)
    \/ \E r \in Responses(BootstrapSmall) : RespBootstrap(r)
    \/ \E r \in Responses(LeagueSmall(league_id)) : RespLeague(r)
    \/ \E r \in Responses(ChoicesSmall(league_id)) : RespChoices(r)
    \/ \E r \in Responses(LiveSmall) : RespLive(r)
    \/ Return

SpecKeyed == Init /\ [][NextKeyed]_vars

\* Refresh after refresh: any sequence of calls for any league by a caller
\* that remembers a failed refresh, the clock advancing at any point; the
\* critical requests come to any outcome, the optional ones succeed.
NextRefresh ==
    \/ Tick
    \/ \E l \in Leagues, force \in BOOLEAN : Call(l, force)
    \/ \E r \in Responses(BootstrapSmall) : RespBootstrap(r)
    \/ \E r \in Responses(LeagueSmall(league_id)) : RespLeague(r)
    \/ \E v \in ChoicesSmall(league_id) : RespChoices(Returned(v))
    \/ \E v \in LiveSmall : RespLive(Returned(v))
    \/ Handover

SpecRefresh == Init /\ [][NextRefresh]_vars

\* The derived fields: the estimator over the fixture lists, the rank over
\* recent points of 0 to MaxPoints and expected points around the steps.
NextEstimator ==
    \/ \E fixtures \in FixtureLists : Estimate(fixtures)
    \/ \E p \in 0..MaxPoints, e \in {0, 10, 19, 20, 21, 30} : Rank(10 * p, e)

SpecEstimator == Init /\ [][NextEstimator]_vars

\* The main window: loads and refreshes with league 1 or a text that is no
\* number as the league id, selections in the team tree; the bootstrap
\* request may fail, the draft choices make one or two teams.
ChoicesApp(l) ==
    ChoicesWith({<<Pick(1, EntryId(l, 1))>>,
                 <<Pick(1, EntryId(l, 1)), Pick(NumPlayers, EntryId(l, 2))>>})
NextApp ==
    \/ \E l \in {1}, force \in BOOLEAN : LoadClick(l, force)
    \/ \E force \in BOOLEAN : LoadRejected(force)
    \/ \E r \in Responses({ScalarValue} \cup ValidBootstraps({Absent})) : RespBootstrap(r)
    \/ \E v \in {ValidLeague(league_id)} : RespLeague(Returned(v))
    \/ \E v \in ChoicesApp(league_id) : RespChoices(Returned(v))
    \/ \E v \in LiveSmall : RespLive(Returned(v))
    \/ LoadDone
    \/ \E iid \in {<<"undrafted">>, <<"drafted_teams">>}
                   \cup {EntryName(1, e) : e \in 1..2} : Select(iid)

SpecApp == Init /\ [][NextApp]_vars

\* The main window with its frozen and saved-table windows.
NextSaved ==
    \/ \E l \in {1}, force \in BOOLEAN : LoadClick(l, force)
    \/ \E v \in {NoneValue} \cup ValidBootstraps({Absent}) : RespBootstrap(Returned(v))
    \/ \E v \in {ValidLeague(league_id)} : RespLeague(Returned(v))
    \/ \E v \in ChoicesApp(league_id) : RespChoices(Returned(v))
    \/ \E v \in LiveSmall : RespLive(Returned(v))
    \/ LoadDone
    \/ \E iid \in {<<"undrafted">>, EntryName(1, 1)} : Select(iid)
    \/ WindowCurrentTable
    \/ \E h \in 1..MaxWindows, live_data \in BOOLEAN : SaveClick(h, live_data)
    \/ \E table_id \in 1..MaxSaved : OpenSaved(table_id)
    \/ \E h \in 1..MaxWindows : CloseSaved(h)

SpecSaved == Init /\ [][NextSaved]_vars

\* A table widget on its own: created on a frame, given new frames, clicked.
NextTable ==
    \/ \E df \in PlayerFrames : NewTable("SortableTable", df)
    \/ \E df \in SquadFrames : NewTable("TransposedTable", df)
    \/ \E df \in PlayerFrames \cup SquadFrames : UpdateData(df)
    \/ \E c \in Labels(ColumnNames) : HeaderClick(c)
    \/ \E s \in Labels(ColumnNames) : StatClick(s)

SpecTable == Init /\ [][NextTable]_vars

\* The HTTP JSON client on its own: every URL, every outcome of the request.
HttpValues == LeagueRich(1)
NextHttp == \E url \in Urls, o \in HttpOutcomes(HttpValues) : GetJsonCall(url, o)

SpecHttp == Init /\ [][NextHttp]_vars

\* ================================================================ claims
\* What the claims call a critical payload that validates.
BootstrapValid(b) ==
    b.kind = "dict" /\ IsList(b.elements) /\ IsList(b.teams) /\ IsList(b.element_types)
LeagueValid(ld) == ld.kind = "dict" /\ ld.league_entries # Absent
\* The invocation has ended and was not served from the cache.
MissReturned == pc = "returned" /\ reqs # <<>>
LiveReqs == SelectSeq(reqs, LAMBDA q : q.url.ep = "event-live")
Populated == result.kind = "triple"

\* C1: a call is served from the cache (returns the cached data at once, with
\* no request) if and only if it is not forced, the cache has an entry for the
\* league and now - timestamp < 600; otherwise it goes on to the bootstrap
\* request.
C1_CacheHitIff ==
    [][(pc = "idle" /\ pc' # "idle") =>
        LET fresh == /\ ~force_refresh'
                     /\ league_id' \in DOMAIN DATA_CACHE
                     /\ now - DATA_CACHE[league_id'].timestamp < 600
        IN /\ fresh => /\ pc' = "returned"
                       /\ reqs' = <<>>
                       /\ result' = DATA_CACHE[league_id'].data
           /\ ~fresh => pc' = "bootstrap" /\ result' = Unset]_vars

\* A non-forced call for a cached league at age exactly 600 s is a miss.
C1_Witness ==
    /\ pc = "bootstrap"
    /\ ~force_refresh
    /\ league_id \in DOMAIN DATA_CACHE
    /\ current_time - DATA_CACHE[league_id].timestamp = 600

\* C2: a successful fetch that read the clock at T stores its triple under
\* timestamp T; a non-forced call for that league at T+599 returns the stored
\* triple with no request and leaves the cache alone; one at T+601 goes on to
\* a fresh bootstrap request.
C2_TtlWindow ==
    [][/\ (DATA_CACHE' # DATA_CACHE) =>
            /\ result'.kind = "triple"
            /\ DATA_CACHE'[league_id] = [timestamp |-> current_time, data |-> result']
       /\ (pc = "idle" /\ pc' # "idle" /\ ~force_refresh' /\ league_id' \in DOMAIN DATA_CACHE) =>
            LET T == DATA_CACHE[league_id'].timestamp IN
            /\ (now = T + 599) => /\ pc' = "returned"
                                  /\ reqs' = <<>>
                                  /\ result' = DATA_CACHE[league_id'].data
                                  /\ DATA_CACHE' = DATA_CACHE
            /\ (now = T + 601) => pc' = "bootstrap"]_vars

\* A non-forced call 599 s after the fetch that filled the entry was served
\* the stored triple without a request.
C2_Witness ==
    /\ pc = "returned"
    /\ reqs = <<>>
    /\ ~force_refresh
    /\ league_id \in DOMAIN DATA_CACHE
    /\ current_time = DATA_CACHE[league_id].timestamp + 599
    /\ result = DATA_CACHE[league_id].data

\* C3: DATA_CACHE changes only in the step that completes an invocation with a
\* populated triple, and then only under that invocation's league id; so an
\* invocation that returns (None, None, None) leaves every entry as it was.
C3_FailureKeepsCache ==
    [][(DATA_CACHE' # DATA_CACHE) =>
        /\ pc # "returned" /\ pc' = "returned"
        /\ result'.kind = "triple"
        /\ DOMAIN DATA_CACHE' = DOMAIN DATA_CACHE \cup {league_id}
        /\ \A k \in DOMAIN DATA_CACHE : k # league_id => DATA_CACHE'[k] = DATA_CACHE[k]]_vars

\* A forced or expired call for a cached league returned (None, None, None);
\* the entry is still there.
C3_Witness ==
    /\ MissReturned
    /\ result = NoneTriple
    /\ league_id \in DOMAIN DATA_CACHE

\* C4: on a cache miss, whenever the bootstrap payload is missing or one of its
\* elements / teams / element_types is not a list, or the league payload is
\* missing or lacks league_entries, the invocation returns the all-None triple
\* (it does not raise).
C4_CriticalFailureReturnsNone ==
    (MissReturned /\ (~BootstrapValid(bootstrap) \/ ~LeagueValid(league_data)))
        => result = NoneTriple

\* C5: when both critical payloads validate, the invocation returns a populated
\* triple and stores it in the cache, whatever the draft choices and live
\* requests came to; with the choices request failed every owner is null, and
\* with every live request failed every cumulative total is 0.
C5_OptionalFailuresDegrade ==
    (MissReturned /\ BootstrapValid(bootstrap) /\ LeagueValid(league_data)) =>
        /\ Populated
        /\ league_id \in DOMAIN DATA_CACHE
        /\ DATA_CACHE[league_id].data = result
        /\ (draft_picks_data = NoneValue) =>
              \A i \in 1..Len(result.players_df) : result.players_df[i].owner = NaN
        /\ (\A i \in 1..Len(LiveReqs) : ~LiveReqs[i].ok) =>
              \A i \in 1..Len(result.players_df) :
                  result.players_df[i].cumulative_total_points = 0

\* The choices request and all four live requests failed, and the triple is
\* populated and cached.
C5_Witness ==
    /\ MissReturned
    /\ draft_picks_data = NoneValue
    /\ Len(LiveReqs) = 4
    /\ \A i \in 1..Len(LiveReqs) : ~LiveReqs[i].ok
    /\ Populated
    /\ DATA_CACHE[league_id].data = result

\* No URL is requested twice within one invocation.
NoRetry == \A i, j \in 1..Len(reqs) : reqs[i].url = reqs[j].url => i = j

\* C6 (as stated): no request is retried, and the failure of any single request
\* of the invocation makes it return the all-None triple.
C6_AnyFailureFailsAll ==
    /\ NoRetry
    /\ (pc = "returned" /\ \E i \in 1..Len(reqs) : ~reqs[i].ok) => result = NoneTriple

\* C6 (amended): no request is retried; a failed bootstrap or league request
\* makes the invocation return the all-None triple; a failed draft choices or
\* live request never does: an invocation whose critical payloads validate
\* does not return the all-None triple, whichever of its later requests fail.
C6_OnlyCriticalFailuresFailAll ==
    /\ NoRetry
    /\ (pc = "returned" /\ \E i \in 1..Len(reqs) :
            ~reqs[i].ok /\ reqs[i].url.ep \in {"bootstrap-static", "league-details"})
          => result = NoneTriple
    /\ (pc = "returned" /\ BootstrapValid(bootstrap) /\ LeagueValid(league_data)
           /\ \E i \in 1..Len(reqs) : ~reqs[i].ok)
          => result # NoneTriple

\* A live request failed and the invocation still returned a populated triple.
C6_Witness ==
    /\ pc = "returned"
    /\ \E i \in 1..Len(reqs) : ~reqs[i].ok /\ reqs[i].url.ep = "event-live"
    /\ Populated

Ids(table) == [i \in 1..Len(table) |-> table[i].id]
Count(seq, x) == Cardinality({i \in 1..Len(seq) : seq[i] = x})
IdSet(table) == {table[i].id : i \in 1..Len(table)}

\* C8: in a populated result every player id of the unified table occurs
\* exactly once over all the owner tables and the undrafted table together,
\* and the partitions hold no other id.
C8_Partition ==
    Populated =>
        LET df == result.players_df
            tt == result.teams_tables
            ud == result.undrafted_table
            Occurrences(id) ==
                Count(Ids(ud), id)
                + Cardinality({<<team, i>> \in
                      UNION {{team} \X (1..Len(tt[team])) : team \in DOMAIN tt} :
                          tt[team][i].id = id})
        IN /\ \A id \in IdSet(df) : Occurrences(id) = 1
           /\ IdSet(ud) \cup UNION {IdSet(tt[team]) : team \in DOMAIN tt} = IdSet(df)
           /\ \A team \in DOMAIN tt : tt[team] # <<>>

\* A result with two owner tables, or with an owner table and undrafted players.
C8_Witness ==
    /\ MissReturned
    /\ Populated
    /\ DOMAIN result.teams_tables # {}
    /\ result.undrafted_table # <<>>

\* The points value of one live record as the claim counts it.
PointsOf(v) == CASE v.t = "int" -> v.n [] v.t = "str" -> v.n [] OTHER -> 0
RECURSIVE SumPoints(_, _, _)
SumPoints(stats, id, i) ==
    IF i > Len(stats) THEN 0
    ELSE (IF stats[i].id = id THEN PointsOf(stats[i].total_points) ELSE 0)
         + SumPoints(stats, id, i + 1)

FlaggedGameweek(b) ==
    IF b.events = Absent \/ ~\E i \in 1..Len(b.events.v) : b.events.v[i].is_current
    THEN 1
    ELSE LET first == CHOOSE i \in 1..Len(b.events.v) :
                 /\ b.events.v[i].is_current
                 /\ \A j \in 1..(i - 1) : ~b.events.v[j].is_current
         IN b.events.v[first].id

\* C10: an uncached fetch that completes has requested the live endpoint of
\* exactly the gameweeks max(1, g-3), ..., g, each once, in ascending order
\* (so at most 4), g being the flagged gameweek or 1.
C10_GameweekWindow ==
    (MissReturned /\ Populated) =>
        LET g == FlaggedGameweek(bootstrap)
            lo == IF g - 3 > 1 THEN g - 3 ELSE 1
        IN /\ Len(LiveReqs) = g - lo + 1
           /\ Len(LiveReqs) <= 4
           /\ \A i \in 1..Len(LiveReqs) : LiveReqs[i].url.arg = lo + i - 1

\* With gameweek MaxGW current the window is clipped to the last four.
C10_Witness ==
    /\ MissReturned
    /\ Populated
    /\ FlaggedGameweek(bootstrap) = MaxGW
    /\ Len(LiveReqs) = 4
    /\ LiveReqs[1].url.arg = MaxGW - 3

\* C11: enrichment never drops a player row: every record of the bootstrap
\* elements list has a row in the unified table, with the name of its team and
\* of its position, and with a null team_name / position when its team id /
\* element_type matches no team / position record.
C11_NoRowDropped ==
    (MissReturned /\ Populated) =>
        \A i \in 1..Len(bootstrap.elements.v) :
            LET e == bootstrap.elements.v[i]
                teams == SelectSeq(bootstrap.teams.v, LAMBDA t : t.id = e.team)
                positions == SelectSeq(bootstrap.element_types.v,
                                       LAMBDA t : t.id = e.element_type)
            IN \E j \in 1..Len(result.players_df) :
                  LET row == result.players_df[j] IN
                  /\ row.id = e.id
                  /\ row.team_name = (IF teams = <<>> THEN NaN ELSE teams[1].name)
                  /\ row.position = (IF positions = <<>> THEN NaN ELSE positions[1].singular_name)

\* A unified table with a player whose team has no record and a player whose
\* position has no record, next to matched ones.
C11_Witness ==
    /\ MissReturned
    /\ Populated
    /\ \E j, k \in 1..Len(result.players_df) :
          /\ result.players_df[j].team_name = NaN
          /\ result.players_df[j].position = PositionName(1)
          /\ result.players_df[k].team_name = TeamName(1)
          /\ result.players_df[k].position = NaN

\* The entries of the league payload the claims call known: the objects with
\* an entry_id and an entry_name.
KnownEntries(ld) == SelectSeq(ld.league_entries.v, EntryUsable)
\* The names of the known entries that picked player id in the choices payload.
PickersOf(id, dp, ld) ==
    {e.entry_name : e \in
        {KnownEntries(ld)[i] : i \in
            {i \in 1..Len(KnownEntries(ld)) :
                \E j \in 1..Len(dp.choices.v) :
                    LET pick == dp.choices.v[j] IN
                    /\ IsRecord(pick)
                    /\ Get(pick, "element") = IntV(id)
                    /\ Get(pick, "entry") = IntV(KnownEntries(ld)[i].entry_id)}}}
ChoicesListed(dp) == dp.kind = "dict" /\ dp.choices.t = "some"

\* C12: ownership resolution skips malformed records without aborting: when
\* the choices payload lists picks, the fetch returns a populated triple in
\* which a player's owner is the entry_name of a known entry that picked them,
\* and null when no known entry did; entries and picks that are no records,
\* lack a key or name an unknown entry are ignored.
C12_MalformedRecordsSkipped ==
    (pc = "returned" /\ Len(reqs) >= 3 /\ ChoicesListed(draft_picks_data)) =>
        /\ Populated
        /\ \A i \in 1..Len(result.players_df) :
              LET row == result.players_df[i]
                  pickers == PickersOf(row.id, draft_picks_data, league_data)
              IN IF pickers = {} THEN row.owner = NaN ELSE row.owner \in pickers

NonIncreasing(table) ==
    \A i, j \in 1..Len(table) :
        i < j => table[i].cumulative_total_points >= table[j].cumulative_total_points

\* C13: in every successful result each owner table and the undrafted table
\* is ordered by cumulative_total_points, non-increasing from the first row to
\* the last.
C13_PartitionsSorted ==
    Populated =>
        /\ \A team \in DOMAIN result.teams_tables : NonIncreasing(result.teams_tables[team])
        /\ NonIncreasing(result.undrafted_table)

\* An owner table whose two players stand in the reverse of their order in
\* the unified table, the one with more points first.
C13_Witness ==
    /\ Populated
    /\ \E team \in DOMAIN result.teams_tables :
          LET table == result.teams_tables[team] IN
          /\ Len(table) >= 2
          /\ table[1].id > table[2].id
          /\ table[1].cumulative_total_points > table[2].cumulative_total_points

\* The partitions of a triple whose content differs between two triples.
ChangedPartitions(before, after) ==
    {team \in DOMAIN before.teams_tables :
        after.teams_tables[team] # before.teams_tables[team]}
    \cup (IF after.undrafted_table # before.undrafted_table THEN {NaN} ELSE {})

\* C14: each partition of the returned triple is an independent copy: a write
\* into one owner table or into the undrafted table changes that table only,
\* no other partition and not the unified player table.
C14_IndependentCopies ==
    [][(pc = "returned" /\ heap # Unset /\ heap' # heap /\ pc' = "returned") =>
          /\ result'.players_df = result.players_df
          /\ DOMAIN result'.teams_tables = DOMAIN result.teams_tables
          /\ Cardinality(ChangedPartitions(result, result')) = 1]_vars

\* An owner table and the undrafted table both hold a player, the owner table
\* has been written to, and the undrafted table and the unified table show no
\* trace of the write.
C14_Witness ==
    /\ pc = "returned"
    /\ Populated
    /\ result.undrafted_table # <<>>
    /\ \E team \in DOMAIN result.teams_tables :
          \E i \in 1..Len(result.teams_tables[team]) :
              result.teams_tables[team][i].cumulative_total_points = -1
    /\ \A i \in 1..Len(result.undrafted_table) :
          result.undrafted_table[i].cumulative_total_points # -1
    /\ \A i \in 1..Len(result.players_df) :
          result.players_df[i].cumulative_total_points # -1

\* C15: whenever the critical payloads validate, an uncached fetch returns a
\* populated triple and does not raise, whatever the optional data holds:
\* empty lists of players, teams or positions, missing or malformed events, a
\* choices payload of any shape, live payloads with malformed entries.
C15_OptionalDataNeverFatal ==
    (MissReturned /\ BootstrapValid(bootstrap) /\ LeagueValid(league_data)) =>
        /\ result.kind # "raise"
        /\ Populated

\* C16: on a cache miss the stages run in the order load (bootstrap, then
\* league), enrichment, segmentation, cache store, return: the cache is
\* written only in the step that returns a populated triple, after the
\* bootstrap and the league request succeeded in that order and the three
\* tables were built (the partitions are those of the enriched unified table);
\* every successful miss writes the entry of its league, and what it stores
\* is the triple it returns.
C16_StageOrder ==
    [][/\ (DATA_CACHE' # DATA_CACHE) =>
            /\ pc # "returned" /\ pc' = "returned"
            /\ Len(reqs') >= 3
            /\ reqs'[1] = [url |-> BOOTSTRAP_URL, ok |-> TRUE]
            /\ reqs'[2] = [url |-> LEAGUE_URL(league_id), ok |-> TRUE]
       /\ (pc # "returned" /\ pc' = "returned" /\ reqs' # <<>> /\ result'.kind = "triple") =>
            /\ \A i \in 1..Len(result'.players_df) :
                  {"team_name", "position", "owner", "cumulative_total_points"}
                      \subseteq DOMAIN result'.players_df[i]
            /\ result' = Triple(result'.players_df)
            /\ DATA_CACHE'[league_id] = [timestamp |-> current_time, data |-> result']]_vars

\* A forced fetch went through all four requests and returned a triple with
\* an owned player, which is now the league's entry.
C16_Witness ==
    /\ pc = "returned"
    /\ force_refresh
    /\ Len(reqs) = 4
    /\ Populated
    /\ DATA_CACHE[league_id].data = result
    /\ \E i \in 1..Len(result.players_df) : result.players_df[i].owner # NaN

\* The owner names a triple shows.
OwnersIn(triple) == {triple.players_df[i].owner : i \in 1..Len(triple.players_df)} \ {NaN}
\* The entry names of league l.
NamesOf(l) == {LeagueEntries(l)[i].entry_name : i \in 1..Len(LeagueEntries(l))}

\* C17: the cache is keyed by league id: no step of a call for league A
\* creates, modifies or removes the entry of a league B # A; a call served
\* from the cache gets the data of A's entry; and the data under a league id
\* is that league's (its owners are entries of that league).
C17_KeyedByLeague ==
    [][/\ \A k \in Leagues : k # league_id' =>
             /\ k \in DOMAIN DATA_CACHE' <=> k \in DOMAIN DATA_CACHE
             /\ k \in DOMAIN DATA_CACHE => DATA_CACHE'[k] = DATA_CACHE[k]
       /\ (pc = "idle" /\ pc' = "returned") =>
             /\ result' = DATA_CACHE[league_id'].data
             /\ OwnersIn(result') \subseteq NamesOf(league_id')
       /\ \A k \in DOMAIN DATA_CACHE' : OwnersIn(DATA_CACHE'[k].data) \subseteq NamesOf(k)]_vars

\* Two leagues are cached with different data, and a call for the second was
\* served its own entry.
C17_Witness ==
    /\ pc = "returned"
    /\ reqs = <<>>
    /\ league_id = 2
    /\ {1, 2} \subseteq DOMAIN DATA_CACHE
    /\ OwnersIn(DATA_CACHE[1].data) # {}
    /\ OwnersIn(DATA_CACHE[2].data) # {}
    /\ result = DATA_CACHE[2].data

\* C18: the performance rank of a player is the step function of the
\* expectation delta (recent points minus recent expected points): >= 8 -> 10,
\* >= 4 -> 8, >= 2 -> 7, >= 0 -> 6, > -2 -> 5, otherwise 1; deltas 9, 5, 3, 1,
\* -1, -3 give ranks 10, 8, 7, 6, 5, 1.  (Deltas are in tenths of a point.)
C18_PerformanceRank ==
    (est # Unset /\ est.kind = "rank") =>
        /\ est.delta = est.points - est.expected
        /\ est.rank \in {10, 8, 7, 6, 5, 1}
        /\ est.rank = 10 <=> est.delta >= 80
        /\ est.rank = 8 <=> (est.delta >= 40 /\ est.delta < 80)
        /\ est.rank = 7 <=> (est.delta >= 20 /\ est.delta < 40)
        /\ est.rank = 6 <=> (est.delta >= 0 /\ est.delta < 20)
        /\ est.rank = 5 <=> (est.delta > -20 /\ est.delta < 0)
        /\ est.rank = 1 <=> est.delta <= -20
        /\ \A i \in 1..6 :
              est.delta = <<90, 50, 30, 10, -10, -30>>[i] => est.rank = <<10, 8, 7, 6, 5, 1>>[i]

\* A delta of exactly -2 has rank 1.
C18_Witness ==
    /\ est # Unset
    /\ est.kind = "rank"
    /\ est.delta = -20
    /\ est.rank = 1

\* C19: the form score of a team comes from its most recent 5 finished results
\* (Win=3, Draw=1, Loss=0, so at most 15), min-max normalised to [1,5]: the
\* scores are within [1,5], ordered as the raw forms, 1.0 for the lowest and
\* 5.0 for the highest raw form; and when all teams have the same raw form
\* every score is exactly 3.0.
C19_FormScore ==
    (est # Unset /\ est.kind = "estimate") =>
        /\ \A t \in DOMAIN est.form :
              /\ est.raw[t] \in 0..15
              /\ est.form[t] >= Unit /\ est.form[t] <= 5 * Unit
        /\ \A s, t \in DOMAIN est.form :
              /\ est.raw[s] < est.raw[t] =>
                    /\ est.form[s] < est.form[t]
                    /\ (\A u \in DOMAIN est.form : est.raw[s] <= est.raw[u]) => est.form[s] = Unit
                    /\ (\A u \in DOMAIN est.form : est.raw[u] <= est.raw[t]) =>
                          est.form[t] = 5 * Unit
              /\ (\A u, v \in DOMAIN est.form : est.raw[u] = est.raw[v]) => est.form[t] = 3 * Unit
        /\ DOMAIN est.form =
              {t \in Teams : \E i \in 1..Len(est.fixtures) :
                  est.fixtures[i].finished
                  /\ t \in {est.fixtures[i].team_h, est.fixtures[i].team_a}}

\* Two teams drew every one of more than five fixtures: both have form 3.0.
C19_Witness ==
    /\ est # Unset
    /\ est.kind = "estimate"
    /\ est.current_gw > 6
    /\ \A i \in 1..Len(est.fixtures) :
          est.fixtures[i].finished => est.fixtures[i].team_h_score = est.fixtures[i].team_a_score
    /\ est.form[1] = 3 * Unit
    /\ est.form[2] = 3 * Unit

UpcomingOf(t) ==
    SelectSeq(est.fixtures, LAMBDA f :
        ~f.finished /\ f.gw >= est.current_gw /\ t \in {f.team_h, f.team_a})

\* C20: every team gets an average upcoming-fixture difficulty: exactly 3.0
\* for a team with no upcoming fixture (also when there is no fixture data at
\* all); and for a team whose only upcoming fixture is against an opponent
\* with no finished fixture, 0.6 times the published difficulty of its side
\* plus 0.4 times 3.0.
C20_DifficultyFallback ==
    (est # Unset /\ est.kind = "estimate") =>
        /\ DOMAIN est.difficulty = Teams
        /\ \A t \in Teams :
              /\ est.difficulty[t] >= Unit /\ est.difficulty[t] <= 5 * Unit
              /\ UpcomingOf(t) = <<>> => est.difficulty[t] = 3 * Unit
              /\ (Len(UpcomingOf(t)) = 1 /\ UpcomingOf(t)[1].team_h = t
                    /\ UpcomingOf(t)[1].team_a \notin DOMAIN est.form) =>
                    10 * est.difficulty[t]
                        = 6 * UpcomingOf(t)[1].team_h_difficulty * Unit + 4 * 3 * Unit

\* All rounds of teams 1 and 2 are played: team 2 has no upcoming fixture and
\* difficulty 3.0, and team 1 meets a team without a finished fixture.
C20_Witness ==
    /\ est # Unset
    /\ est.kind = "estimate"
    /\ UpcomingOf(2) = <<>>
    /\ est.difficulty[2] = 3 * Unit
    /\ Len(UpcomingOf(1)) = 1
    /\ UpcomingOf(1)[1].team_a \notin DOMAIN est.form
    /\ 10 * est.difficulty[1] = 6 * 2 * Unit + 4 * 3 * Unit

\* C21: a forced refresh for league L that fails while the cache holds an
\* entry for L leaves that entry as it was (no step of an invocation changes
\* the cache unless it returns a populated triple), and the next call, if it
\* is a non-forced one for L less than 600 s after the entry's timestamp,
\* returns the entry's triple at once, with no request.
C21_FailedRefreshKeepsEntry ==
    [][/\ (pc \notin {"idle", "returned"} /\ force_refresh /\ league_id \in DOMAIN DATA_CACHE
            /\ ~(pc' = "returned" /\ result'.kind = "triple")) =>
              DATA_CACHE' = DATA_CACHE
       /\ (pc = "idle" /\ pc' # "idle" /\ seen # Unset /\ seen.entry # Unset
            /\ league_id' = seen.league_id /\ ~force_refresh'
            /\ now - seen.entry.timestamp < 600) =>
              /\ pc' = "returned"
              /\ reqs' = <<>>
              /\ result' = seen.entry.data
              /\ DATA_CACHE' = DATA_CACHE
              /\ DATA_CACHE[league_id'] = seen.entry]_vars

\* 599 s after the fetch that filled the entry, and after a refresh that
\* failed in between, a non-forced call got the old triple without a request.
C21_Witness ==
    /\ pc = "returned"
    /\ seen # Unset
    /\ seen.entry # Unset
    /\ league_id = seen.league_id
    /\ ~force_refresh
    /\ current_time = seen.entry.timestamp + 599
    /\ reqs = <<>>
    /\ result = seen.entry.data

\* C22: the timestamp a cache entry gets is the clock value the invocation
\* read at its start, before its first request, and kept while the clock went
\* on, not the time of completion; and the timestamp of a league's entry
\* never decreases from one successful fetch to the next.
C22_TimestampIsStartTime ==
    [][/\ (pc = "idle" /\ pc' # "idle") => (current_time' = now /\ reqs' = <<>>)
       /\ (pc \notin {"idle", "returned"}) => current_time' = current_time
       /\ (DATA_CACHE' # DATA_CACHE) =>
            /\ DATA_CACHE'[league_id].timestamp = current_time
            /\ now' = now
            /\ league_id \in DOMAIN DATA_CACHE =>
                  DATA_CACHE'[league_id].timestamp >= DATA_CACHE[league_id].timestamp]_vars

\* A fetch completed after the clock had advanced past its start and replaced
\* the older entry a failed refresh had left: the new entry is stamped with
\* the start time.
C22_Witness ==
    /\ pc = "returned"
    /\ reqs # <<>>
    /\ result.kind = "triple"
    /\ DATA_CACHE[league_id].timestamp = current_time
    /\ current_time < now
    /\ seen # Unset
    /\ seen.entry # Unset
    /\ seen.league_id = league_id
    /\ seen.entry.timestamp < current_time

\* C23: a critical failure ends the invocation before any later request: a
\* league request is issued only after a bootstrap payload that validates, a
\* draft-choices or live request only after a league payload that validates
\* too; so an invocation whose bootstrap payload failed validation issued the
\* bootstrap request alone, and one whose league payload failed issued the
\* bootstrap and the league request alone.
C23_CriticalFailureAborts ==
    /\ \A i \in 1..Len(reqs) :
          /\ reqs[i].url.ep = "league-details" => BootstrapValid(bootstrap)
          /\ reqs[i].url.ep \in {"draft-choices", "event-live"} =>
                BootstrapValid(bootstrap) /\ LeagueValid(league_data)
    /\ (MissReturned /\ ~BootstrapValid(bootstrap)) =>
          /\ Len(reqs) = 1
          /\ reqs[1].url = BOOTSTRAP_URL
    /\ (MissReturned /\ BootstrapValid(bootstrap) /\ ~LeagueValid(league_data)) =>
          /\ Len(reqs) = 2
          /\ reqs[2].url = LEAGUE_URL(league_id)

\* The league answered without league_entries: the invocation returned the
\* all-None triple after two requests.
C23_Witness ==
    /\ MissReturned
    /\ BootstrapValid(bootstrap)
    /\ league_data = LeagueObject(Absent)
    /\ result = NoneTriple
    /\ Len(reqs) = 2

\* The values along a sequence of labels are in the direction's order, the
\* missing ones after all others.
Ordered(labels, value, direction) ==
    \A k \in 1..(Len(labels) - 1) :
        LET a == value[labels[k]]
            b == value[labels[k + 1]]
        IN IF a = NaN THEN b = NaN
           ELSE b = NaN \/ (IF direction = "desc" THEN a[1] >= b[1] ELSE a[1] <= b[1])
IsPermutation(p, q) ==
    /\ Len(p) = Len(q)
    /\ \A x \in Labels(p) \cup Labels(q) :
          Cardinality({i \in 1..Len(p) : p[i] = x}) = Cardinality({i \in 1..Len(q) : q[i] = x})

\* C26: a click on a column header of a SortableTable that is not the current
\* sort column sorts the rows by that column in descending order; a click on
\* the current sort column reverses the direction and sorts in it; the sort
\* keeps the columns and every cell and only permutes the rows.
C26_SortableSorting ==
    [][(event'.kind = "header" /\ widget.class = "SortableTable") =>
        LET c == event'.arg
            value == [r \in Labels(widget'.dataframe.index) |-> widget'.dataframe.at[<<r, c>>]]
        IN /\ widget'.sort_column_name = Some(c)
           /\ widget.sort_column_name # Some(c) => widget'.sort_direction = "desc"
           /\ widget.sort_column_name = Some(c) =>
                 widget'.sort_direction = (IF widget.sort_direction = "desc" THEN "asc" ELSE "desc")
           /\ Ordered(widget'.dataframe.index, value, widget'.sort_direction)
           /\ IsPermutation(widget'.dataframe.index, widget.dataframe.index)
           /\ widget'.dataframe.columns = widget.dataframe.columns
           /\ widget'.dataframe.at = widget.dataframe.at]_vars

\* A second click on the form header: the rows are in ascending form order,
\* no longer in the order they were created in, the player without a form
\* value last.
C26_Witness ==
    /\ widget # Unset
    /\ widget.class = "SortableTable"
    /\ event = [kind |-> "header", arg |-> "form"]
    /\ widget.sort_direction = "asc"
    /\ widget.dataframe.index = <<2, 3, 1>>
    /\ widget.dataframe.at[<<1, "form">>] = NaN
    /\ widget.dataframe.at[<<2, "form">>] = <<1>>
    /\ widget.dataframe.at[<<3, "form">>] = <<2>>

\* C27: a click on a statistic row of a TransposedTable that follows the
\* creation of the table or a click on another statistic row orders the player
\* columns descending by the statistic, the direction being reversed only by
\* a further click on the same statistic; a click on a statistic name that is
\* no row of the table leaves the order and the direction as they are.
C27_TransposedSorting ==
    [][(event'.kind = "stat" /\ widget.class = "TransposedTable") =>
        LET stat == event'.arg
            rows == Labels(widget.dataframe.index)
            first == \/ event.kind = "new"
                     \/ event.kind = "stat" /\ event.arg # stat /\ event.arg \in rows
        IN IF stat \notin rows THEN widget' = widget
           ELSE /\ IsPermutation(widget'.dataframe.columns, widget.dataframe.columns)
                /\ first =>
                      Ordered(widget'.dataframe.columns,
                              [p \in Labels(widget'.dataframe.columns) |->
                                  widget'.dataframe.at[<<stat, p>>]],
                              "desc")]_vars

\* C24: the 'Refresh Data' button of the main window is disabled initially,
\* enabled by every load or refresh whose fetch returned data, disabled by
\* every load or refresh whose fetch returned the all-None triple, which also
\* makes the three tables of the app None, and left as it is by a load that is
\* rejected because the league id is no number.
C24_RefreshButton ==
    /\ app.refresh_btn = "disabled"
    /\ [][/\ (pc = "returned" /\ result.kind = "triple") => app'.refresh_btn = "normal"
          /\ (pc = "returned" /\ result.kind = "none") =>
                (app'.refresh_btn = "disabled" /\ app'.tables = NoneTriple)
          /\ (pc = "idle" /\ app'.status_label = "Invalid League ID.") =>
                app'.refresh_btn = app.refresh_btn]_vars

\* A refresh has failed after a successful load: the button is disabled
\* again and the tables are None, the team list still being there.
C24_Witness ==
    /\ pc = "idle"
    /\ app.status_label = "Failed to load data."
    /\ app.refresh_btn = "disabled"
    /\ app.tables = NoneTriple
    /\ app.team_tree # <<>>

\* C25: a successful non-forced load makes the team list the two fixed items
\* followed by the sorted keys of teams_tables, and no other step changes the
\* team list, so that after a refresh it still lists the teams of the last
\* successful non-forced load.
C25_TeamListOnLoadOnly ==
    [][IF pc = "returned" /\ result.kind = "triple" /\ ~force_refresh
       THEN app'.team_tree = <<<<"undrafted">>, <<"drafted_teams">>>>
                                \o sorted(DOMAIN result.teams_tables)
       ELSE app'.team_tree = app.team_tree]_vars

\* A refresh has brought a second team that the team list does not show.
C25_Witness ==
    /\ pc = "idle"
    /\ app.status_label = "Data loaded successfully!"
    /\ app.tables.kind = "triple"
    /\ Len(app.team_tree) = 3
    /\ Cardinality(DOMAIN app.tables.teams_tables) = 2

\* C28: open_saved_windows holds exactly one record for each saved-table
\* window that is open, and no record of a window that is not.
C28_OneRecordPerOpenWindow ==
    LET records == app.open_saved_windows IN
    /\ \A h \in 1..Len(windows) :
          (windows[h].kind = "saved" /\ windows[h].open) =>
              Cardinality({k \in 1..Len(records) : records[k].window = h}) = 1
    /\ \A k \in 1..Len(records) :
          /\ windows[records[k].window].kind = "saved"
          /\ windows[records[k].window].open

\* C29: when a load or a refresh has returned data, every open saved-table
\* window of a table saved with live_data shows the table the main window
\* shows for the view the table was saved from, as far as the new data has
\* that view and the window's table is of the view's class, and every window
\* of a table saved without live_data shows the frame that was saved.
C29_LiveAndFrozenWindows ==
    [][(pc = "returned" /\ result.kind = "triple") =>
        \A k \in 1..Len(app'.open_saved_windows) :
            LET record == app'.open_saved_windows[k]
                shown == windows'[record.window].table_widget
                iid == IF record.view_id = <<"Undrafted Players">> THEN <<"undrafted">>
                       ELSE record.view_id
                same(d, e) == d.index = e.index /\ d.columns = e.columns /\ d.at = e.at
            IN IF ~record.live_data THEN same(shown.dataframe, record.frozen_data)
               ELSE (/\ iid = <<"undrafted">> \/ iid \in DOMAIN app'.tables.teams_tables
                     /\ shown.class = view_of(app', iid).class)
                    => same(shown.dataframe, view_of(app', iid).dataframe)]_vars

\* C30: a click on 'Save this Table...' in a frozen-view window that saves a
\* table saves the view the window is titled with and, when the data is
\* saved, the frame of the window's own table.
C30_SavesTheFrozenWindow ==
    [][\A h \in 1..Len(windows) :
          (/\ windows[h].kind = "frozen"
           /\ windows[h].save_button = "normal"
           /\ windows'[h].save_button = "disabled") =>
              LET new_record == saved_tables'[Len(saved_tables')] IN
              /\ new_record.view_id = windows[h].title
              /\ ~new_record.live_data =>
                    new_record.frozen_data.v = to_json(windows[h].table_widget.dataframe)]_vars

====
